---- MODULE Spec2Model ----
(***************************************************************************)
(* Model of the conversation orchestration engine of VIPWatcher:           *)
(* function_app.py (main, Assistant.get_response and its helpers) and the  *)
(* scope selection of utils/azure_file_storage.py.                         *)
(*                                                                         *)
(* Text is modelled as a sequence of one-character strings, so that the    *)
(* regular expressions of the source are matched character by character.   *)
(***************************************************************************)
EXTENDS Integers, Sequences, FiniteSets, TLC

\* ------------------------------------------------------------------------
\* Text helpers
\* ------------------------------------------------------------------------

\* Python's None, kept apart from every text (texts hold one-character strings).
None == <<"<None>">>

\* A value not yet computed.
Unset == <<"<Unset>">>

Rep(c, n) == [i \in 1..n |-> c]

\* \s of the re module, as far as the inputs of the model use it.
Whitespace == {" ", "\n"}

\* [0-9a-f] under re.IGNORECASE.
HexDigits ==
    {"0", "1", "2", "3", "4", "5", "6", "7", "8", "9",
     "a", "b", "c", "d", "e", "f", "A", "B", "C", "D", "E", "F"}

RECURSIVE LStrip(_)
LStrip(s) ==
    IF s # <<>> /\ Head(s) \in Whitespace THEN LStrip(Tail(s)) ELSE s

RECURSIVE RStrip(_)
RStrip(s) ==
    IF s # <<>> /\ s[Len(s)] \in Whitespace
    THEN RStrip(SubSeq(s, 1, Len(s) - 1))
    ELSE s

\* str.strip()
Strip(s) == RStrip(LStrip(s))

\* The 36 characters of s from position 1 have the shape 8-4-4-4-12.
UuidShape(s) ==
    /\ Len(s) >= 36
    /\ \A i \in 1..36 :
         IF i \in {9, 14, 19, 24} THEN s[i] = "-" ELSE s[i] \in HexDigits

\* re.compile(r'^[0-9a-f]{8}-[0-9a-f]{4}-[0-9a-f]{4}-[0-9a-f]{4}-[0-9a-f]{12}$',
\* re.IGNORECASE).match(s): '$' also matches just before a final newline.
GuidPatternMatch(s) ==
    /\ UuidShape(s)
    /\ \/ Len(s) = 36
       \/ Len(s) = 37 /\ s[37] = "\n"

\* Length of the longest run of [:=\s] that starts s.
RECURSIVE SepRun(_)
SepRun(s) ==
    IF s # <<>> /\ Head(s) \in ({":", "="} \cup Whitespace)
    THEN 1 + SepRun(Tail(s))
    ELSE 0

\* 'guid' under re.IGNORECASE at the start of s.
GuidLabel(s) ==
    /\ Len(s) >= 4
    /\ s[1] \in {"g", "G"}
    /\ s[2] \in {"u", "U"}
    /\ s[3] \in {"i", "I"}
    /\ s[4] \in {"d", "D"}

\* The text after the label and its separators.
LabeledToken(s) ==
    LET rest == SubSeq(s, 5, Len(s))
    IN  SubSeq(rest, SepRun(rest) + 1, Len(rest))

\* re.compile(r'^guid[:=\s]+([0-9a-f-]{36})$', re.IGNORECASE).match(s).
\* The separator class and the token class are disjoint, so the separators
\* are the longest run; the token is 36 characters of hex digits and hyphens
\* in any arrangement.
LabeledGuidPatternMatch(s) ==
    /\ GuidLabel(s)
    /\ SepRun(SubSeq(s, 5, Len(s))) >= 1
    /\ LET tok == LabeledToken(s)
       IN  /\ \/ Len(tok) = 36
              \/ Len(tok) = 37 /\ tok[37] = "\n"
           /\ \A i \in 1..36 : tok[i] \in (HexDigits \cup {"-"})

\* Assistant.extract_user_guid
extract_user_guid(text) ==
    IF text = None THEN None
    ELSE LET text_str == Strip(text)
         IN  IF GuidPatternMatch(text_str) THEN SubSeq(text_str, 1, 36)
             ELSE IF LabeledGuidPatternMatch(text_str)
                  THEN SubSeq(LabeledToken(text_str), 1, 36)
                  ELSE None

\* ------------------------------------------------------------------------
\* Texts the model draws its inputs from
\* ------------------------------------------------------------------------

DEFAULT_USER_GUID ==
    <<"c", "0", "p", "1", "1", "0", "t", "0", "-", "a", "a", "a", "a", "-",
      "b", "b", "b", "b", "-", "c", "c", "c", "c", "-",
      "1", "2", "3", "4", "5", "6", "7", "8", "9", "a", "b", "c">>

MkUuid(c) ==
    Rep(c, 8) \o <<"-">> \o Rep(c, 4) \o <<"-">> \o Rep(c, 4) \o <<"-">>
        \o Rep(c, 4) \o <<"-">> \o Rep(c, 12)

UuidA == MkUuid("a")
UuidB == MkUuid("B")
Uuid7 == MkUuid("7")

Hyphens36 == Rep("-", 36)
Hex36 == Rep("f", 36)
\* A hyphen one place too early: 7-5-4-4-12.
Misplaced == Rep("1", 7) \o <<"-">> \o Rep("1", 5) \o <<"-">> \o Rep("1", 4)
                 \o <<"-">> \o Rep("1", 4) \o <<"-">> \o Rep("1", 12)
Short35 == SubSeq(UuidA, 1, 35)
Long37 == UuidA \o <<"a">>
Hello == <<"h", "i">>


\* "absent" marks a key that a mapping does not hold.
Absent == <<"<absent>">>

\* ------------------------------------------------------------------------
\* Scope selection of the memory store
\* ------------------------------------------------------------------------

shared_memory_path == <<"s", "h", "a", "r", "e", "d", "_", "m", "e", "m", "o", "r", "i", "e", "s">>

\* f"memory/{guid}"
guid_dir(guid) == <<"m", "e", "m", "o", "r", "y", "/">> \o guid

\* AzureFileStorageManager.set_memory_context: probeOk says whether
\* get_file_properties found the document, createOk whether creating the
\* directory and the file succeeded.
set_memory_context(guid, probeOk, createOk) ==
    IF guid = None \/ guid = <<>>
    THEN [current_guid |-> None, current_memory_path |-> shared_memory_path,
          ret |-> TRUE, created |-> FALSE]
    ELSE IF ~GuidPatternMatch(guid)
    THEN [current_guid |-> None, current_memory_path |-> shared_memory_path,
          ret |-> FALSE, created |-> FALSE]
    ELSE IF probeOk
    THEN [current_guid |-> guid, current_memory_path |-> guid_dir(guid),
          ret |-> TRUE, created |-> FALSE]
    ELSE IF createOk
    THEN [current_guid |-> guid, current_memory_path |-> guid_dir(guid),
          ret |-> TRUE, created |-> TRUE]
    ELSE [current_guid |-> None, current_memory_path |-> shared_memory_path,
          ret |-> FALSE, created |-> FALSE]

\* ------------------------------------------------------------------------
\* The provider's function calls and the handlers' results
\* ------------------------------------------------------------------------

max_retries == 3

\* A turn is cut off after this many provider calls.
MaxProviderCalls == 5

MemoryAgents == {"ManageMemory", "ContextMemory"}
known_agents == MemoryAgents \cup {"VIPWatcher"}
\* A name the registry does not hold.
UnknownAgent == "Ghost"

\* No finalisation call has returned yet; once one has, function_call is the
\* capability its message asks for, "" when it asks for none.
NoFinalMsg == [returned |-> FALSE, function_call |-> ""]

NoCall == [name |-> "", args |-> [kind |-> "none", user_guid |-> Absent, content |-> Absent]]

\* function_call.arguments as the provider sends them: nothing, the text of a
\* JSON object, text that is no JSON, the text of a JSON array.
Arguments ==
    {[kind |-> "none", user_guid |-> Absent, content |-> Absent],
     [kind |-> "object", user_guid |-> Absent, content |-> Hello],
     [kind |-> "object", user_guid |-> UuidB, content |-> None],
     [kind |-> "object", user_guid |-> None, content |-> Hello],
     [kind |-> "malformed", user_guid |-> Absent, content |-> Absent],
     [kind |-> "array", user_guid |-> Absent, content |-> Absent]}

\* safe_json_loads: empty input gives {}, a JSON value is returned as parsed,
\* a JSONDecodeError gives the mapping {"error": "Invalid JSON: ..."}.
safe_json_loads(a) ==
    CASE a.kind = "none" ->
           [isdict |-> TRUE, user_guid |-> Absent, content |-> Absent, error |-> Absent]
      [] a.kind = "object" ->
           [isdict |-> TRUE, user_guid |-> a.user_guid, content |-> a.content, error |-> Absent]
      [] a.kind = "malformed" ->
           [isdict |-> TRUE, user_guid |-> Absent, content |-> Absent,
            error |-> <<"I", "n", "v", "a", "l", "i", "d">>]
      [] OTHER ->
           [isdict |-> FALSE, user_guid |-> Absent, content |-> Absent, error |-> Absent]

\* get_response, lines 546-551: a null value becomes the empty string.
SanitizeValue(v) == IF v = None THEN <<>> ELSE v

\* The session's identity filling in only where the provider sent no
\* user_guid of its own.
sanitized_parameters_ModelWins(agent_name, agent_parameters, self_user_guid) ==
    [user_guid |-> IF agent_name \in MemoryAgents
                      /\ agent_parameters.user_guid = Absent
                   THEN self_user_guid
                   ELSE SanitizeValue(agent_parameters.user_guid),
     content |-> SanitizeValue(agent_parameters.content),
     error |-> SanitizeValue(agent_parameters.error)]

\* get_response, lines 546-556: the parameters perform is called with.
sanitized_parameters(agent_name, agent_parameters, self_user_guid) ==
    [user_guid |-> IF agent_name \in MemoryAgents
                   THEN self_user_guid
                   ELSE SanitizeValue(agent_parameters.user_guid),
     content |-> SanitizeValue(agent_parameters.content),
     error |-> SanitizeValue(agent_parameters.error)]

NoParameters == [user_guid |-> Absent, content |-> Absent, error |-> Absent]

\* JSON values of the keys the follow-up decision reads are written as their
\* text: "absent" for a missing key, "null", "true", "1", "\"incomplete\"".

\* bool(v) of Python for result_json.get(key).
Truthy(v) == v \notin {"absent", "null", "false", "\"\""}

\* v == True of Python: True and the number 1.
EqualsTrue(v) == v \in {"true", "1"}

Text(k) == [kind |-> k, error |-> "absent", status |-> "absent", raa |-> "absent"]
Dict(e, s, r) == [kind |-> "dict", error |-> e, status |-> s, raa |-> r]

\* What perform returned when it returned None (line 563).
CompletedSentinel == Text("sentinel")

NoResult == Text("none yet")

\* Strings a handler returns: plain text, the text of a JSON array, and the
\* text of JSON objects.
HandlerResults ==
    {Text("text"), Text("list"),
     Dict("absent", "\"success\"", "absent"),
     Dict("absent", "\"incomplete\"", "absent"),
     Dict("absent", "\"error\"", "absent"),
     Dict("\"boom\"", "absent", "absent"),
     Dict("\"\"", "absent", "false"),
     Dict("absent", "absent", "true"),
     Dict("absent", "absent", "1"),
     Dict("null", "\"success\"", "\"yes\"")}

\* What the handlers of src/agents return for the memory capabilities: text.
ResultsOf(agent_name) ==
    IF agent_name \in MemoryAgents THEN {Text("text")} ELSE HandlerResults

\* The follow-up decision with the status test left out.
EvaluateFollowUp_NoStatus(r) ==
    IF r.kind = "dict"
    THEN Truthy(r.error) \/ EqualsTrue(r.raa)
    ELSE FALSE

\* The follow-up decision taking the error envelope {"status": "error"} for
\* an error indicator.
EvaluateFollowUp_StatusError(r) ==
    IF r.kind = "dict"
    THEN \/ Truthy(r.error)
         \/ r.status \in {"\"incomplete\"", "\"error\""}
         \/ EqualsTrue(r.raa)
    ELSE FALSE

\* get_response, lines 581-594.
EvaluateFollowUp(r) ==
    IF r.kind = "dict"
    THEN \/ Truthy(r.error)
         \/ r.status = "\"incomplete\""
         \/ EqualsTrue(r.raa)
    ELSE FALSE

\* The scope a handler of src/agents selects when it is performed with kw:
\* ManageMemory returns before touching the store when content is empty.
HandlerTouchesStore(agent_name, kw) ==
    \/ agent_name = "ContextMemory"
    \/ agent_name = "ManageMemory" /\ kw.content \notin {Absent, <<>>}

\* kwargs.get('user_guid')
KwUserGuid(kw) == IF kw.user_guid = Absent THEN None ELSE kw.user_guid


\* perform returned None.
NoneReturn == Text("None")

\* What perform may return for a capability.
HandlerReturns(agent_name) ==
    IF agent_name \in MemoryAgents
    THEN ResultsOf(agent_name)
    ELSE ResultsOf(agent_name) \cup {NoneReturn}

\* get_response, lines 562-565.
ResultString(ret) == IF ret = NoneReturn THEN CompletedSentinel ELSE ret

\* ------------------------------------------------------------------------
\* Requests
\* ------------------------------------------------------------------------

Bob == <<"b", "o", "b">>
GuidColon == <<"g", "u", "i", "d", ":">>

\* A JSON value that is no string, by its type and by the text str() gives
\* for it: NonString("<int>", <<"5">>) is the number 5.
NonString(type, repr) == <<type>> \o repr
NonStringTypes == {"<int>", "<float>", "<bool>", "<list>", "<dict>"}

\* str(value) of a value that is not None.
Str(value) ==
    IF value # <<>> /\ value[1] \in NonStringTypes THEN Tail(value) ELSE value

\* A history element that is no mapping: the value itself.
NonDict(value) == [role |-> "<no mapping>", content |-> value]

\* A bare JSON string as a history element.
StrOfNotADict == <<"<str>">>
NotADict == NonDict(StrOfNotADict)

UserMsg(c) == [role |-> "user", content |-> c]

Req(g, i, h) == [user_guid |-> g, user_input |-> i, conversation_history |-> h]

\* The request bodies of the model: no identity at all; an identity in the
\* user_guid field (a UUID, something else); in user_input (bare, padded,
\* labeled, labeled around hyphens, inside a sentence); in the history (first
\* turn, later turn); several at once; blank input; a history of a non-mapping.
Requests ==
    {Req(None, Hello, <<>>),
     Req(UuidA, Hello, <<>>),
     Req(Bob, Hello, <<>>),
     Req(None, Uuid7, <<>>),
     Req(None, <<" ">> \o Uuid7 \o <<"\n">>, <<>>),
     Req(None, GuidColon \o UuidB, <<>>),
     Req(None, GuidColon \o Hyphens36, <<>>),
     Req(None, Hello \o <<" ">> \o Uuid7, <<>>),
     Req(None, Hello, <<UserMsg(UuidB)>>),
     Req(None, Hello, <<UserMsg(Hello), UserMsg(UuidB)>>),
     Req(UuidA, Uuid7, <<UserMsg(UuidB)>>),
     Req(None, <<" ">>, <<>>),
     Req(None, Hello, <<NotADict>>)}

NoRequest == [user_guid |-> None, user_input |-> <<>>, conversation_history |-> <<>>]

\* ------------------------------------------------------------------------
\* State
\* ------------------------------------------------------------------------

VARIABLES
    pc,               \* where request handling stands
    req,              \* the request body
    user_guid,        \* Assistant.user_guid
    retry_count,      \* get_response: retry_count
    needs_follow_up,  \* get_response: needs_follow_up
    agent_logs,       \* get_response: agent_logs, one capability name per entry
    messages,         \* get_response: messages, as [role, name, content, memory]
    call,             \* assistant_msg.function_call of the last Complete call
    final_msg,        \* final_msg of the finalisation call: its function_call
    result,           \* get_response: result of the last perform
    kwargs,           \* the parameters of the last perform
    scope,            \* history: the scope the last performed handler selected
    nProvider,        \* history: calls of get_openai_api_call
    nPerform,         \* history: calls of agent.perform
    nSleep,           \* history: calls of time.sleep
    nFollowUp,        \* history: times the loop went back for a follow-up
    sent,             \* history: Len(messages) of the last provider call
    response,         \* what get_response returned
    http,             \* what main returned
    text,             \* extract_user_guid: its argument
    guid,             \* extract_user_guid: its value
    shared_memory,    \* Assistant.shared_memory
    user_memory,      \* Assistant.user_memory
    nInit,            \* history: calls of _initialize_context_memory
    current_guid,     \* AzureFileStorageManager.current_guid
    current_memory_path, \* AzureFileStorageManager.current_memory_path
    dirs,             \* the file share: its directories
    files,            \* the file share: its documents
    op,               \* history: the last operation on the storage manager
    stores,           \* the requests storing a memory at the same time
    discovery,        \* load_agents_from_folder: where it stands, declared_agents
    input,            \* the argument of a function taken on its own
    output            \* its value

vars == <<pc, req, user_guid, retry_count, needs_follow_up, agent_logs, messages,
          call, final_msg, result, kwargs, scope, nProvider, nPerform, nSleep,
          nFollowUp, sent,
          response, http, text, guid, shared_memory, user_memory, nInit,
          current_guid, current_memory_path, dirs, files, op, stores,
          discovery, input, output>>

snapshotVars == <<shared_memory, user_memory, nInit>>
storeVars == <<current_guid, current_memory_path, dirs, files, op, stores>>
otherVars == <<discovery, input, output>>

NoResponse == [kind |-> "none", logs |-> 0, agent |-> ""]
NoScope == [guid |-> None, path |-> <<>>, store_ok |-> TRUE]
NoHttp == [status |-> 0, user_guid |-> None]

\* A cached snapshot is the rendering of the document of one scope, made by
\* the load-th call of _initialize_context_memory; before the first call the
\* Assistant holds None.
NoSnapshot == [scope |-> None, load |-> 0]
Snapshot(path, load) == [scope |-> path, load |-> load]

NoOp == [name |-> "none", token |-> None, raised |-> FALSE, fallback |-> FALSE,
         ret |-> TRUE]

NoDiscovery == [pc |-> "none"]
NoInput == [fn |-> "none", arg |-> None]
NoOutput == [returned |-> FALSE, value |-> None]

\* No discovery running and no function taken on its own.
OthersIdle ==
    /\ discovery = NoDiscovery
    /\ input = NoInput
    /\ output = NoOutput

\* The storage manager and the file share at rest.
StoreIdle ==
    /\ current_guid = None
    /\ current_memory_path = shared_memory_path
    /\ dirs = {}
    /\ files = <<>>
    /\ op = NoOp
    /\ stores = <<>>
    /\ OthersIdle

TurnInit(r) ==
    /\ pc = "main"
    /\ req = r
    /\ user_guid = DEFAULT_USER_GUID
    /\ retry_count = 0
    /\ needs_follow_up = FALSE
    /\ agent_logs = <<>>
    /\ messages = <<>>
    /\ call = NoCall
    /\ final_msg = NoFinalMsg
    /\ result = NoResult
    /\ kwargs = NoParameters
    /\ scope = NoScope
    /\ nProvider = 0
    /\ nPerform = 0
    /\ nSleep = 0
    /\ nFollowUp = 0
    /\ sent = 0
    /\ response = NoResponse
    /\ http = NoHttp
    /\ shared_memory = NoSnapshot
    /\ user_memory = NoSnapshot
    /\ nInit = 0

Init ==
    /\ \E r \in Requests : TurnInit(r)
    /\ text = Unset
    /\ guid = Unset
    /\ StoreIdle

\* ------------------------------------------------------------------------
\* main
\* ------------------------------------------------------------------------

\* bool(x) of Python for None and for a text.
Falsy(x) == x = None \/ x = <<>>

\* main, line 666.
is_guid_only(user_input) == GuidPatternMatch(Strip(user_input))

\* main, lines 684-691: the identity main gives the new Assistant.
MainUserGuid(r) ==
    IF ~Falsy(r.user_guid) THEN r.user_guid
    ELSE IF is_guid_only(r.user_input) THEN Strip(r.user_input)
    ELSE DEFAULT_USER_GUID

\* Assistant._initialize_context_memory(user_guid) as its load-th call: the
\* shared snapshot renders the shared document, the identity snapshot the
\* document of the scope set_memory_context selects for the token.
initialize_context_memory(token, load) ==
    LET g == IF Falsy(token) THEN DEFAULT_USER_GUID ELSE token
    IN  [shared_memory |->
             Snapshot(set_memory_context(None, TRUE, TRUE).current_memory_path, load),
         user_memory |->
             Snapshot(set_memory_context(g, TRUE, TRUE).current_memory_path, load)]

\* main, lines 681-690: Assistant.__init__ loads the snapshots of the default
\* identity; main loads them again for an identity of the request.
MainLoads(r) ==
    IF ~Falsy(r.user_guid) \/ is_guid_only(r.user_input) THEN 2 ELSE 1

\* main, lines 650-691: validation of the input, then the Assistant is built
\* and given the request's identity.
Main ==
    /\ pc = "main"
    /\ IF ~is_guid_only(req.user_input) /\ Strip(req.user_input) = <<>>
       THEN /\ pc' = "done"
            /\ http' = [status |-> 400, user_guid |-> None]
            /\ UNCHANGED <<user_guid, snapshotVars>>
       ELSE /\ pc' = "get_response"
            /\ user_guid' = MainUserGuid(req)
            /\ nInit' = MainLoads(req)
            /\ LET m == initialize_context_memory(MainUserGuid(req), MainLoads(req))
               IN  /\ shared_memory' = m.shared_memory
                   /\ user_memory' = m.user_memory
            /\ UNCHANGED http
    /\ UNCHANGED <<storeVars, otherVars, final_msg, req, retry_count, needs_follow_up, agent_logs, messages, call,
                   result, kwargs, scope, nProvider, nPerform, nSleep, nFollowUp, sent,
                   response, text, guid>>

\* main, lines 679-682 and 709-719: loading the agents or building the
\* Assistant raises.
MainRaises ==
    /\ pc = "main"
    /\ ~(~is_guid_only(req.user_input) /\ Strip(req.user_input) = <<>>)
    /\ pc' = "done"
    /\ http' = [status |-> 500, user_guid |-> None]
    /\ UNCHANGED <<snapshotVars, storeVars, otherVars, final_msg, req, user_guid, retry_count, needs_follow_up, agent_logs,
                   messages, call, result, kwargs, scope, nProvider, nPerform,
                   nSleep, sent, response, text, guid,
                   nFollowUp>>

\* main, lines 696-708.
\* main answering with the user_guid of the request body instead of the
\* session's.
Respond_RequestGuid ==
    /\ pc = "returned"
    /\ pc' = "done"
    /\ http' = [status |-> 200, user_guid |-> req.user_guid]
    /\ UNCHANGED <<snapshotVars, storeVars, otherVars, final_msg, req, user_guid, retry_count, needs_follow_up, agent_logs,
                   messages, call, result, kwargs, scope, nProvider, nPerform,
                   nSleep, sent, response, text, guid,
                   nFollowUp>>

Respond ==
    /\ pc = "returned"
    /\ pc' = "done"
    /\ http' = [status |-> 200, user_guid |-> user_guid]
    /\ UNCHANGED <<snapshotVars, storeVars, otherVars, final_msg, req, user_guid, retry_count, needs_follow_up, agent_logs,
                   messages, call, result, kwargs, scope, nProvider, nPerform,
                   nSleep, sent, response, text, guid,
                   nFollowUp>>

\* ------------------------------------------------------------------------
\* get_response: identity and messages
\* ------------------------------------------------------------------------

\* Assistant._check_first_message_for_guid, for a history of mappings.
check_first_message_for_guid(conversation_history) ==
    IF conversation_history = <<>> THEN None
    ELSE LET first_message == conversation_history[1]
         IN  IF first_message.role = "user" /\ first_message.content # None
                /\ GuidPatternMatch(Strip(first_message.content))
             THEN Strip(first_message.content)
             ELSE None

\* get_response, lines 490-504.
ResolvedGuid(current, conversation_history, prompt) ==
    LET guid_from_history == check_first_message_for_guid(conversation_history)
        guid_from_prompt == extract_user_guid(prompt)
        target_guid == IF guid_from_history # None THEN guid_from_history
                       ELSE guid_from_prompt
    IN  IF ~Falsy(target_guid) /\ target_guid # current THEN target_guid
        ELSE IF Falsy(current) THEN DEFAULT_USER_GUID
        ELSE current

\* The prompt compared with the token as it stands, untrimmed.
IsGuidOnlyPrompt_NoStrip(resolved, prompt) ==
    LET guid_from_prompt == extract_user_guid(prompt)
    IN  /\ ~Falsy(guid_from_prompt)
        /\ prompt = guid_from_prompt
        /\ resolved = guid_from_prompt

\* get_response, line 510.
IsGuidOnlyPrompt(resolved, prompt) ==
    LET guid_from_prompt == extract_user_guid(prompt)
    IN  /\ ~Falsy(guid_from_prompt)
        /\ Strip(prompt) = guid_from_prompt
        /\ resolved = guid_from_prompt

\* The snapshots of the construction kept for the whole turn.
ReloadNeeded_Never(current, resolved) == FALSE

\* get_response, lines 492-500: the snapshots are loaded again when the
\* session takes another identity.
ReloadNeeded(current, resolved) == resolved # current

\* The content left as it came, whatever its type.
ensure_string_content_AsIs(message) ==
    [role |-> IF message.role \in {"<no mapping>", "<absent>"} THEN "user"
              ELSE message.role,
     name |-> "", content |-> message.content, memory |-> <<>>]

\* ensure_string_content: the message as the provider gets it. A message that
\* is no mapping (None included) and a mapping without role get the role
\* user; content that is missing or None becomes '', any other content its
\* str().
ensure_string_content(message) ==
    [role |-> IF message.role \in {"<no mapping>", "<absent>"} THEN "user"
              ELSE message.role,
     name |-> "",
     content |-> IF message.content \in {None, Absent} THEN <<>>
                 ELSE Str(message.content),
     memory |-> <<>>]

\* The system message: its text embeds both cached snapshots.
system_message(shared, user) ==
    [role |-> "system", name |-> "", content |-> <<"<system>">>,
     memory |-> <<shared, user>>]

\* The function turn appended after a dispatch.
function_message(agent_name) ==
    [role |-> "function", name |-> agent_name, content |-> <<"<result>">>,
     memory |-> <<>>]

\* Assistant.prepare_messages, for a session holding the snapshots shared
\* and user.
prepare_messages(conversation_history, shared, user) ==
    LET start_idx ==
            IF check_first_message_for_guid(conversation_history) # None THEN 2 ELSE 1
        replay == SubSeq(conversation_history, start_idx, Len(conversation_history))
    IN  <<system_message(shared, user)>>
            \o [i \in 1..Len(replay) |-> ensure_string_content(replay[i])]

\* get_response, line 522 and line 613: the head of the retry loop.
LoopHead(rc) ==
    IF rc < max_retries
    THEN [pc |-> "complete", response |-> NoResponse]
    ELSE [pc |-> "returned", response |-> [kind |-> "service_unavailable", logs |-> 0, agent |-> ""]]

HistoryLimit == 20

\* The first HistoryLimit turns kept instead of the last.
TrimHistory_KeepsOldest(h) ==
    IF Len(h) > HistoryLimit THEN SubSeq(h, 1, HistoryLimit) ELSE h

\* get_response, lines 482-486.
TrimHistory(h) ==
    IF Len(h) > HistoryLimit THEN SubSeq(h, Len(h) - HistoryLimit + 1, Len(h)) ELSE h

\* get_response, lines 481-520.
ResolveIdentity ==
    /\ pc = "get_response"
    /\ LET conversation_history == TrimHistory(req.conversation_history)
       IN
       IF conversation_history # <<>> /\ conversation_history[1] = NotADict
       THEN \* first_message.get raises; lines 615-617
            /\ pc' = "returned"
            /\ response' = [kind |-> "critical_error", logs |-> 0, agent |-> ""]
            /\ UNCHANGED <<user_guid, messages, snapshotVars>>
       ELSE LET resolved == ResolvedGuid(user_guid, conversation_history, req.user_input)
                m == initialize_context_memory(resolved, nInit + 1)
            IN  /\ user_guid' = resolved
                /\ IF ReloadNeeded(user_guid, resolved)
                   THEN /\ nInit' = nInit + 1
                        /\ shared_memory' = m.shared_memory
                        /\ user_memory' = m.user_memory
                   ELSE UNCHANGED snapshotVars
                /\ IF IsGuidOnlyPrompt(resolved, req.user_input)
                   THEN /\ pc' = "returned"
                        /\ response' = [kind |-> "memory_loaded", logs |-> 0, agent |-> ""]
                        /\ UNCHANGED messages
                   ELSE /\ messages' =
                               Append(prepare_messages(conversation_history,
                                                       shared_memory', user_memory'),
                                      ensure_string_content(UserMsg(req.user_input)))
                        /\ pc' = LoopHead(0).pc
                        /\ response' = LoopHead(0).response
    /\ retry_count' = 0
    /\ needs_follow_up' = FALSE
    /\ agent_logs' = <<>>
    /\ UNCHANGED <<storeVars, otherVars, final_msg, req, call, result, kwargs, scope, nProvider, nPerform, nSleep,
                   sent, http, text, guid,
                   nFollowUp>>


\* ------------------------------------------------------------------------
\* get_response: the Complete / Dispatch loop
\* ------------------------------------------------------------------------

\* The exception handler sleeping after the last attempt too and leaving the
\* loop by its head.
OnException_AlwaysSleeps(rc) ==
    [retry_count |-> rc + 1, sleeps |-> 1,
     pc |-> LoopHead(rc + 1).pc, response |-> LoopHead(rc + 1).response]

\* get_response, lines 604-611: the handler of an exception raised inside the
\* loop body. rc is retry_count before the handler runs.
OnException(rc) ==
    IF rc + 1 < max_retries
    THEN [retry_count |-> rc + 1, sleeps |-> 1,
          pc |-> LoopHead(rc + 1).pc, response |-> LoopHead(rc + 1).response]
    ELSE [retry_count |-> rc + 1, sleeps |-> 0,
          pc |-> "returned", response |-> [kind |-> "error_occurred", logs |-> 0, agent |-> ""]]

\* get_response, line 524 raising, then lines 604-611.
CompleteRaises ==
    /\ pc = "complete"
    /\ nProvider < MaxProviderCalls
    /\ nProvider' = nProvider + 1
    /\ sent' = Len(messages)
    /\ LET h == OnException(retry_count)
       IN  /\ retry_count' = h.retry_count
           /\ nSleep' = nSleep + h.sleeps
           /\ pc' = h.pc
           /\ response' = h.response
    /\ UNCHANGED <<snapshotVars, storeVars, otherVars, final_msg, req, user_guid, needs_follow_up, agent_logs, messages, call,
                   result, kwargs, scope, nPerform, http, text, guid,
                   nFollowUp>>

\* get_response, lines 524-530: the provider answers with plain content.
CompletePlain ==
    /\ pc = "complete"
    /\ nProvider < MaxProviderCalls
    /\ nProvider' = nProvider + 1
    /\ sent' = Len(messages)
    /\ pc' = "returned"
    /\ response' = [kind |-> "content", logs |-> Len(agent_logs), agent |-> ""]
    /\ UNCHANGED <<snapshotVars, storeVars, otherVars, final_msg, req, user_guid, retry_count, needs_follow_up, agent_logs,
                   messages, call, result, kwargs, scope, nPerform, nSleep,
                   http, text, guid,
                   nFollowUp>>

\* A request for a capability the registry does not hold treated as a failed
\* attempt of the loop.
CompleteUnknownAgent_Retried ==
    /\ pc = "complete"
    /\ nProvider < MaxProviderCalls
    /\ nProvider' = nProvider + 1
    /\ sent' = Len(messages)
    /\ call' = [name |-> UnknownAgent, args |-> NoCall.args]
    /\ LET h == OnException(retry_count)
       IN  /\ retry_count' = h.retry_count
           /\ nSleep' = nSleep + h.sleeps
           /\ pc' = h.pc
           /\ response' = h.response
    /\ UNCHANGED <<snapshotVars, storeVars, otherVars, final_msg, req, user_guid, needs_follow_up,
                   agent_logs, messages, result, kwargs, scope, nPerform, http,
                   text, guid, nFollowUp>>

\* get_response, lines 532-536: the provider names a capability the registry
\* does not hold.
CompleteUnknownAgent ==
    /\ pc = "complete"
    /\ nProvider < MaxProviderCalls
    /\ nProvider' = nProvider + 1
    /\ sent' = Len(messages)
    /\ call' = [name |-> UnknownAgent, args |-> NoCall.args]
    /\ pc' = "returned"
    /\ response' = [kind |-> "agent_not_exist", logs |-> 0, agent |-> call'.name]
    /\ UNCHANGED <<snapshotVars, storeVars, otherVars, final_msg, req, user_guid, retry_count, needs_follow_up, agent_logs,
                   messages, result, kwargs, scope, nPerform, nSleep, http,
                   text, guid,
                   nFollowUp>>

\* get_response, lines 524-540: the provider requests a known capability.
CompleteFunctionCall ==
    /\ pc = "complete"
    /\ nProvider < MaxProviderCalls
    /\ nProvider' = nProvider + 1
    /\ sent' = Len(messages)
    /\ \E n \in known_agents, a \in Arguments : call' = [name |-> n, args |-> a]
    /\ pc' = "dispatch"
    /\ UNCHANGED <<snapshotVars, storeVars, otherVars, final_msg, req, user_guid, retry_count, needs_follow_up, agent_logs,
                   messages, result, kwargs, scope, nPerform, nSleep, response,
                   http, text, guid,
                   nFollowUp>>

\* get_response, lines 543-547 and 569-571: the arguments parse to a value
\* that is no mapping, so agent_parameters.items() raises.
DispatchArgumentsRaise ==
    /\ pc = "dispatch"
    /\ ~safe_json_loads(call.args).isdict
    /\ pc' = "returned"
    /\ response' = [kind |-> "error_parsing_parameters", logs |-> 0, agent |-> ""]
    /\ UNCHANGED <<snapshotVars, storeVars, otherVars, final_msg, req, user_guid, retry_count, needs_follow_up, agent_logs,
                   messages, call, result, kwargs, scope, nProvider, nPerform,
                   nSleep, sent, http, text, guid,
                   nFollowUp>>

\* perform raising with no handler at the dispatch boundary: the exception
\* reaches the handler of the retry loop.
DispatchPerformRaises_Retried ==
    /\ pc = "dispatch"
    /\ safe_json_loads(call.args).isdict
    /\ kwargs' = sanitized_parameters(call.name, safe_json_loads(call.args), user_guid)
    /\ nPerform' = nPerform + 1
    /\ LET h == OnException(retry_count)
       IN  /\ retry_count' = h.retry_count
           /\ nSleep' = nSleep + h.sleeps
           /\ pc' = h.pc
           /\ response' = h.response
    /\ UNCHANGED <<snapshotVars, storeVars, otherVars, final_msg, req, user_guid, needs_follow_up, agent_logs, messages, call,
                   result, scope, nProvider, sent, http, text, guid, nFollowUp>>

\* get_response, lines 543-559 and 569-571: perform is called and raises.
DispatchPerformRaises ==
    /\ pc = "dispatch"
    /\ safe_json_loads(call.args).isdict
    /\ kwargs' = sanitized_parameters(call.name, safe_json_loads(call.args), user_guid)
    /\ nPerform' = nPerform + 1
    /\ pc' = "returned"
    /\ response' = [kind |-> "error_parsing_parameters", logs |-> 0, agent |-> ""]
    /\ UNCHANGED <<snapshotVars, storeVars, otherVars, final_msg, req, user_guid, retry_count, needs_follow_up, agent_logs,
                   messages, call, result, scope, nProvider, nSleep, sent,
                   http, text, guid,
                   nFollowUp>>

\* The scope entry a performed handler leaves: the token it was given, the
\* path set_memory_context selected, and whether the store answered.
ScopeEntry(kw, probeOk, createOk) ==
    [guid |-> KwUserGuid(kw),
     path |-> set_memory_context(KwUserGuid(kw), probeOk, createOk).current_memory_path,
     store_ok |-> probeOk \/ createOk]

\* A follow-up signal answered by invoking the same handler again, with no
\* Complete call in between.
DispatchPerform_Redispatch ==
    /\ pc = "dispatch"
    /\ safe_json_loads(call.args).isdict
    /\ LET kw == sanitized_parameters(call.name, safe_json_loads(call.args), user_guid)
       IN  /\ kwargs' = kw
           /\ IF HandlerTouchesStore(call.name, kw)
              THEN \E probeOk, createOk \in BOOLEAN :
                       scope' = ScopeEntry(kw, probeOk, createOk)
              ELSE scope' = NoScope
    /\ nPerform' = nPerform + 1
    /\ \E ret \in HandlerReturns(call.name) : result' = ResultString(ret)
    /\ agent_logs' = Append(agent_logs, call.name)
    /\ messages' = Append(messages, function_message(call.name))
    /\ needs_follow_up' = EvaluateFollowUp(result')
    /\ IF needs_follow_up' /\ nPerform' < MaxProviderCalls
       THEN /\ pc' = "dispatch"
            /\ nFollowUp' = nFollowUp + 1
            /\ UNCHANGED response
       ELSE /\ pc' = "finalize"
            /\ UNCHANGED <<response, nFollowUp>>
    /\ UNCHANGED <<snapshotVars, storeVars, otherVars, final_msg, req, user_guid, retry_count, call,
                   nProvider, nSleep, sent, http, text, guid>>

\* get_response, lines 543-567 and 573-597: perform is called and returns;
\* the result is logged, appended as a function turn and examined for a
\* follow-up signal.
\* A dispatch that starts the count of failed attempts afresh.
DispatchPerform_ResetsRetries ==
    /\ pc = "dispatch"
    /\ safe_json_loads(call.args).isdict
    /\ LET kw == sanitized_parameters(call.name, safe_json_loads(call.args), user_guid)
       IN  /\ kwargs' = kw
           /\ IF HandlerTouchesStore(call.name, kw)
              THEN \E probeOk, createOk \in BOOLEAN :
                       scope' = ScopeEntry(kw, probeOk, createOk)
              ELSE scope' = NoScope
    /\ nPerform' = nPerform + 1
    /\ \E ret \in HandlerReturns(call.name) : result' = ResultString(ret)
    /\ agent_logs' = Append(agent_logs, call.name)
    /\ messages' = Append(messages, function_message(call.name))
    /\ needs_follow_up' = EvaluateFollowUp(result')
    /\ retry_count' = 0
    /\ IF needs_follow_up'
       THEN /\ pc' = LoopHead(0).pc
            /\ response' = LoopHead(0).response
            /\ nFollowUp' = nFollowUp + 1
       ELSE /\ pc' = "finalize"
            /\ UNCHANGED <<response, nFollowUp>>
    /\ UNCHANGED <<snapshotVars, storeVars, otherVars, final_msg, req, user_guid, call, nProvider, nSleep, sent,
                   http, text, guid>>

DispatchPerform ==
    /\ pc = "dispatch"
    /\ safe_json_loads(call.args).isdict
    /\ LET kw == sanitized_parameters(call.name, safe_json_loads(call.args), user_guid)
       IN  /\ kwargs' = kw
           /\ IF HandlerTouchesStore(call.name, kw)
              THEN \E probeOk, createOk \in BOOLEAN :
                       scope' = ScopeEntry(kw, probeOk, createOk)
              ELSE scope' = NoScope
    /\ nPerform' = nPerform + 1
    /\ \E ret \in HandlerReturns(call.name) : result' = ResultString(ret)
    /\ agent_logs' = Append(agent_logs, call.name)
    /\ messages' = Append(messages, function_message(call.name))
    /\ needs_follow_up' = EvaluateFollowUp(result')
    /\ IF needs_follow_up'
       THEN /\ pc' = LoopHead(retry_count).pc
            /\ response' = LoopHead(retry_count).response
            /\ nFollowUp' = nFollowUp + 1
       ELSE /\ pc' = "finalize"
            /\ UNCHANGED <<response, nFollowUp>>
    /\ UNCHANGED <<snapshotVars, storeVars, otherVars, final_msg, req, user_guid, retry_count, call, nProvider, nSleep, sent,
                   http, text, guid>>

\* get_response, line 598 raising, then lines 604-611.
FinalizeRaises ==
    /\ pc = "finalize"
    /\ nProvider < MaxProviderCalls
    /\ nProvider' = nProvider + 1
    /\ sent' = Len(messages)
    /\ LET h == OnException(retry_count)
       IN  /\ retry_count' = h.retry_count
           /\ nSleep' = nSleep + h.sleeps
           /\ pc' = h.pc
           /\ response' = h.response
    /\ UNCHANGED <<snapshotVars, storeVars, otherVars, final_msg, req, user_guid, needs_follow_up, agent_logs, messages, call,
                   result, kwargs, scope, nPerform, http, text, guid,
                   nFollowUp>>

\* get_response, lines 598-602: the final provider call returns; its content
\* is parsed and returned with the log, whether its message carries a
\* function_call or not.
FinalizeReturns ==
    /\ pc = "finalize"
    /\ nProvider < MaxProviderCalls
    /\ nProvider' = nProvider + 1
    /\ sent' = Len(messages)
    /\ \E n \in known_agents \cup {UnknownAgent, ""} :
           final_msg' = [returned |-> TRUE, function_call |-> n]
    /\ pc' = "returned"
    /\ response' = [kind |-> "final", logs |-> Len(agent_logs), agent |-> ""]
    /\ UNCHANGED <<snapshotVars, storeVars, otherVars, req, user_guid, retry_count, needs_follow_up, agent_logs,
                   messages, call, result, kwargs, scope, nPerform, nSleep,
                   http, text, guid,
                   nFollowUp>>

Next ==
    \/ Main
    \/ MainRaises
    \/ ResolveIdentity
    \/ CompleteRaises
    \/ CompletePlain
    \/ CompleteUnknownAgent
    \/ CompleteFunctionCall
    \/ DispatchArgumentsRaise
    \/ DispatchPerformRaises
    \/ DispatchPerform
    \/ FinalizeRaises
    \/ FinalizeReturns
    \/ Respond

Spec == Init /\ [][Next]_vars

\* ------------------------------------------------------------------------
\* Identity resolution and prompt assembly over long histories: turns whose
\* first provider call answers with plain content
\* ------------------------------------------------------------------------

\* The longest history of the requests below.
MaxHistory == 22

\* The i-th turn of a conversation: user and assistant alternate, every turn
\* has a text of its own.
Turn(i) ==
    [role |-> IF i % 2 = 1 THEN "user" ELSE "assistant",
     content |-> <<"t">> \o Rep("x", i)]

\* A history of n turns whose k-th turn (if k > 0) is a user turn holding
\* nothing but an identity token.
History(n, k) == [i \in 1..n |-> IF i = k THEN UserMsg(UuidB) ELSE Turn(i)]

HistoryLengths == {0, 1, 2} \cup ((HistoryLimit - 1)..MaxHistory)

Histories == {History(n, k) : n \in HistoryLengths, k \in 0..MaxHistory}

AssembleRequests ==
    {Req(g, i, h) : g \in {None, UuidA}, i \in {Hello, Uuid7}, h \in Histories}

InitAssemble ==
    /\ \E r \in AssembleRequests : TurnInit(r)
    /\ text = Unset
    /\ guid = Unset
    /\ StoreIdle

NextAssemble ==
    \/ Main
    \/ MainRaises
    \/ ResolveIdentity
    \/ CompletePlain
    \/ Respond

SpecAssemble == InitAssemble /\ [][NextAssemble]_vars

\* ------------------------------------------------------------------------
\* The storage manager on its own: one AzureFileStorageManager and the file
\* share behind it, every call of the storage service free to fail
\* ------------------------------------------------------------------------

\* _write_shared_memory calls itself at most this many times in a row.
MaxWriteAttempts == 2

\* The tokens set_memory_context is called with.
StoreTokens == {None, UuidA, UuidA \o <<"\n">>, Bob, DEFAULT_USER_GUID}

\* The directories of the share that hold a memory document.
StorePaths ==
    {shared_memory_path}
        \cup {guid_dir(g) : g \in {t \in StoreTokens \ {None} : GuidPatternMatch(t)}}

\* The records a memory document may hold.
Records == {"m"}

NoDoc == [exists |-> FALSE, records |-> {}]
Doc(records) == [exists |-> TRUE, records |-> records]

\* How one call of the storage service ends: it succeeds, or it raises an
\* error whose text holds "ResourceNotFound", or it raises another error.
Outcome == {"ok", "ResourceNotFound", "error"}

\* The exception of a call that did not succeed: a call on something that is
\* not there raises ResourceNotFound.
FailureOf(o) == IF o = "error" THEN "error" ELSE "ResourceNotFound"

\* get_file_to_text and get_file_properties succeed on a document that is
\* there, create_file_from_text in a directory that is there.
ReadSucceeds(fs, path, o) == o = "ok" /\ fs[path].exists
CreateSucceeds(ds, path, o) == o = "ok" /\ path \in ds

\* AzureFileStorageManager.ensure_directory_exists: a failure is logged and
\* answered with False.
ensure_directory_exists(ds, directory_name, ok) ==
    IF ok THEN ds \cup {directory_name} ELSE ds

\* How the four storage calls of _ensure_share_exists end.
EnsureOutcomes ==
    {[share |-> TRUE, dir |-> TRUE, probe |-> TRUE, create |-> TRUE],
     [share |-> FALSE, dir |-> TRUE, probe |-> TRUE, create |-> TRUE],
     [share |-> TRUE, dir |-> FALSE, probe |-> TRUE, create |-> TRUE],
     [share |-> TRUE, dir |-> TRUE, probe |-> FALSE, create |-> TRUE],
     [share |-> TRUE, dir |-> TRUE, probe |-> FALSE, create |-> FALSE]}

EnsureAllOk == [share |-> TRUE, dir |-> TRUE, probe |-> TRUE, create |-> TRUE]

\* AzureFileStorageManager._ensure_share_exists: every exception is logged
\* and raised again.
ensure_share_exists(ds, fs, e) ==
    IF ~e.share
    THEN [dirs |-> ds, files |-> fs, raised |-> TRUE]
    ELSE LET ds1 == ensure_directory_exists(ds, shared_memory_path, e.dir)
         IN  IF e.probe /\ fs[shared_memory_path].exists
             THEN [dirs |-> ds1, files |-> fs, raised |-> FALSE]
             ELSE IF e.create /\ shared_memory_path \in ds1
             THEN [dirs |-> ds1,
                   files |-> [fs EXCEPT ![shared_memory_path] = Doc({})],
                   raised |-> FALSE]
             ELSE [dirs |-> ds1, files |-> fs, raised |-> TRUE]

\* read_json and write_json, lines 123 and 162: an identity scope is selected.
InIdentityScope(cg, path) == cg \notin {None, <<>>} /\ path # shared_memory_path

\* AzureFileStorageManager._read_shared_memory.
read_shared_memory(ds, fs, o, e) ==
    IF ReadSucceeds(fs, shared_memory_path, o)
    THEN [dirs |-> ds, files |-> fs, raised |-> FALSE,
          value |-> fs[shared_memory_path].records]
    ELSE IF FailureOf(o) = "ResourceNotFound"
    THEN LET r == ensure_share_exists(ds, fs, e)
         IN  [dirs |-> r.dirs, files |-> r.files, raised |-> r.raised, value |-> {}]
    ELSE [dirs |-> ds, files |-> fs, raised |-> FALSE, value |-> {}]

\* AzureFileStorageManager.read_json.
read_json(cg, path, ds, fs, o) ==
    IF InIdentityScope(cg, path) /\ ReadSucceeds(fs, path, o.guid)
    THEN [current_guid |-> cg, current_memory_path |-> path, dirs |-> ds,
          files |-> fs, raised |-> FALSE, value |-> fs[path].records,
          fallback |-> FALSE]
    ELSE LET r == read_shared_memory(ds, fs, o.shared, o.ensure)
         IN  [current_guid |-> IF InIdentityScope(cg, path) THEN None ELSE cg,
              current_memory_path |->
                  IF InIdentityScope(cg, path) THEN shared_memory_path ELSE path,
              dirs |-> r.dirs, files |-> r.files, raised |-> r.raised,
              value |-> r.value, fallback |-> InIdentityScope(cg, path)]

\* How one run of _write_shared_memory ends: its create_file_from_text, and
\* the _ensure_share_exists that follows a ResourceNotFound.
WriteAttempts ==
    {[write |-> "ok", ensure |-> EnsureAllOk],
     [write |-> "error", ensure |-> EnsureAllOk]}
        \cup {[write |-> "ResourceNotFound", ensure |-> e] : e \in EnsureOutcomes}

RECURSIVE write_shared_memory(_, _, _, _)
\* AzureFileStorageManager._write_shared_memory: attempts holds how the run
\* and the runs it calls end; cut says that it called itself once more than
\* attempts provides for.
write_shared_memory(ds, fs, data, attempts) ==
    IF attempts = <<>>
    THEN [dirs |-> ds, files |-> fs, raised |-> FALSE, written |-> FALSE,
          cut |-> TRUE]
    ELSE LET a == Head(attempts)
         IN  IF CreateSucceeds(ds, shared_memory_path, a.write)
             THEN [dirs |-> ds,
                   files |-> [fs EXCEPT ![shared_memory_path] = Doc(data)],
                   raised |-> FALSE, written |-> TRUE, cut |-> FALSE]
             ELSE IF FailureOf(a.write) = "ResourceNotFound"
             THEN LET r == ensure_share_exists(ds, fs, a.ensure)
                  IN  IF r.raised
                      THEN [dirs |-> r.dirs, files |-> r.files, raised |-> TRUE,
                            written |-> FALSE, cut |-> FALSE]
                      ELSE write_shared_memory(r.dirs, r.files, data, Tail(attempts))
             ELSE [dirs |-> ds, files |-> fs, raised |-> FALSE,
                   written |-> FALSE, cut |-> FALSE]

\* AzureFileStorageManager.write_json.
write_json(cg, path, ds, fs, data, o) ==
    IF InIdentityScope(cg, path) /\ CreateSucceeds(ds, path, o.guid)
    THEN [current_guid |-> cg, current_memory_path |-> path, dirs |-> ds,
          files |-> [fs EXCEPT ![path] = Doc(data)], raised |-> FALSE,
          written |-> TRUE, cut |-> FALSE, fallback |-> FALSE]
    ELSE LET r == write_shared_memory(ds, fs, data, o.attempts)
         IN  [current_guid |-> IF InIdentityScope(cg, path) THEN None ELSE cg,
              current_memory_path |->
                  IF InIdentityScope(cg, path) THEN shared_memory_path ELSE path,
              dirs |-> r.dirs, files |-> r.files, raised |-> r.raised,
              written |-> r.written, cut |-> r.cut,
              fallback |-> InIdentityScope(cg, path)]

turnVars ==
    <<pc, req, user_guid, retry_count, needs_follow_up, agent_logs, messages,
      call, final_msg, result, kwargs, scope, nProvider, nPerform, nSleep,
      nFollowUp, sent,
      response, http, text, guid, shared_memory, user_memory, nInit>>

\* After AzureFileStorageManager.__init__: the shared scope is selected and
\* its document is there; identity documents of earlier sessions may be.
InitStore ==
    /\ TurnInit(NoRequest)
    /\ text = Unset
    /\ guid = Unset
    /\ current_guid = None
    /\ current_memory_path = shared_memory_path
    /\ \E held \in SUBSET (StorePaths \ {shared_memory_path}) :
           /\ dirs = held \cup {shared_memory_path}
           /\ \E sharedRecords \in SUBSET Records :
                  files = [p \in StorePaths |->
                              IF p = shared_memory_path THEN Doc(sharedRecords)
                              ELSE IF p \in held THEN Doc(Records)
                              ELSE NoDoc]
    /\ op = NoOp
    /\ stores = <<>>
    /\ OthersIdle

\* One call of set_memory_context.
SetMemoryContext ==
    \E token \in StoreTokens, probe, dirOk, create \in BOOLEAN :
        LET accepted == token # None /\ GuidPatternMatch(token)
            probeOk == accepted /\ ReadSucceeds(files, guid_dir(token),
                                                IF probe THEN "ok" ELSE "error")
            ds1 == IF accepted /\ ~probeOk
                   THEN ensure_directory_exists(dirs, guid_dir(token), dirOk)
                   ELSE dirs
            createOk == accepted /\ CreateSucceeds(ds1, guid_dir(token),
                                                   IF create THEN "ok" ELSE "error")
            r == set_memory_context(token, probeOk, createOk)
        IN  /\ current_guid' = r.current_guid
            /\ current_memory_path' = r.current_memory_path
            /\ dirs' = ds1
            /\ files' = IF r.created
                        THEN [files EXCEPT ![guid_dir(token)] = Doc({})]
                        ELSE files
            /\ op' = [name |-> "set_memory_context", token |-> token,
                      raised |-> FALSE, fallback |-> FALSE, ret |-> r.ret]
            /\ UNCHANGED <<turnVars, otherVars, stores>>

\* One call of read_json.
ReadJson ==
    \E g, sh \in Outcome, e \in EnsureOutcomes :
        LET r == read_json(current_guid, current_memory_path, dirs, files,
                           [guid |-> g, shared |-> sh, ensure |-> e])
        IN  /\ current_guid' = r.current_guid
            /\ current_memory_path' = r.current_memory_path
            /\ dirs' = r.dirs
            /\ files' = r.files
            /\ op' = [name |-> "read_json", token |-> current_guid,
                      raised |-> r.raised, fallback |-> r.fallback, ret |-> TRUE]
            /\ UNCHANGED <<turnVars, otherVars, stores>>

\* Every sequence of n ways a run of _write_shared_memory may end.
AttemptSequences(n) == [1..n -> WriteAttempts]

\* One call of write_json.
WriteJson ==
    \E data \in SUBSET Records, g \in Outcome,
       attempts \in AttemptSequences(MaxWriteAttempts) :
        LET r == write_json(current_guid, current_memory_path, dirs, files, data,
                            [guid |-> g, attempts |-> attempts])
        IN  /\ ~r.cut
            /\ current_guid' = r.current_guid
            /\ current_memory_path' = r.current_memory_path
            /\ dirs' = r.dirs
            /\ files' = r.files
            /\ op' = [name |-> "write_json", token |-> current_guid,
                      raised |-> r.raised, fallback |-> r.fallback,
                      ret |-> r.written]
            /\ UNCHANGED <<turnVars, otherVars, stores>>

NextStore ==
    \/ SetMemoryContext
    \/ ReadJson
    \/ WriteJson

SpecStore == InitStore /\ [][NextStore]_vars

\* ------------------------------------------------------------------------
\* Two requests storing a memory in the same scope at the same time, each
\* with a ManageMemory handler and a storage manager of its own; the storage
\* service answers every call
\* ------------------------------------------------------------------------

\* The requests.
Storers == {"a", "b"}

\* uuid.uuid4() of store_memory: every new record has a key of its own.
memory_id(p) == p

\* The tokens both requests may store under.
StorerTokens == {None, UuidA}

\* A request that has not called perform yet; faults tells whether the
\* storage service may fail the calls of this request.
Storer(token) ==
    [pc |-> "perform", user_guid |-> token, current_guid |-> None,
     current_memory_path |-> shared_memory_path, memory_data |-> {},
     returned |-> "", faults |-> FALSE]

InitConcurrent ==
    /\ TurnInit(NoRequest)
    /\ text = Unset
    /\ guid = Unset
    /\ current_guid = None
    /\ current_memory_path = shared_memory_path
    /\ op = NoOp
    /\ \E held \in SUBSET {guid_dir(UuidA)}, sharedRecords \in SUBSET Records :
           /\ dirs = held \cup {shared_memory_path}
           /\ files = [p \in StorePaths |->
                          IF p = shared_memory_path THEN Doc(sharedRecords)
                          ELSE IF p \in held THEN Doc(Records)
                          ELSE NoDoc]
    /\ \E token \in StorerTokens : stores = [p \in Storers |-> Storer(token)]
    /\ OthersIdle

\* The storage service answering every call of read_json and of write_json.
ReadAnswered == [guid |-> "ok", shared |-> "ok", ensure |-> EnsureAllOk]
WriteAnswered == [guid |-> "ok", attempts |-> <<[write |-> "ok", ensure |-> EnsureAllOk]>>]

\* What the storage service may answer to a request.
ProbeAnswers(faults) == IF faults THEN BOOLEAN ELSE {TRUE}
ReadAnswers(faults) ==
    IF faults
    THEN [guid : Outcome, shared : Outcome, ensure : EnsureOutcomes]
    ELSE {ReadAnswered}
WriteAnswers(faults) ==
    IF faults
    THEN [guid : Outcome, attempts : AttemptSequences(MaxWriteAttempts)]
    ELSE {WriteAnswered}

\* What perform of ManageMemoryAgent gives back: the message of line 93, or
\* the exception of a storage call, which nothing in lines 48-93 catches.
StoreReturns(raised) == IF raised THEN "raised" ELSE "Successfully stored"

\* ManageMemoryAgent.perform, lines 48-60: the handler selects the scope of
\* its user_guid.
StorePerform(p) ==
    /\ stores[p].pc = "perform"
    /\ \E probe, dirOk, create \in ProbeAnswers(stores[p].faults) :
       LET token == stores[p].user_guid
           accepted == token # None /\ GuidPatternMatch(token)
           probeOk == accepted /\ ReadSucceeds(files, guid_dir(token),
                                               IF probe THEN "ok" ELSE "error")
           ds1 == IF accepted /\ ~probeOk
                  THEN ensure_directory_exists(dirs, guid_dir(token), dirOk)
                  ELSE dirs
           createOk == accepted /\ CreateSucceeds(ds1, guid_dir(token),
                                                  IF create THEN "ok" ELSE "error")
           r == set_memory_context(token, probeOk, createOk)
       IN  /\ dirs' = ds1
           /\ files' = IF r.created
                       THEN [files EXCEPT ![guid_dir(token)] = Doc({})]
                       ELSE files
           /\ stores' = [stores EXCEPT ![p].pc = "read",
                                       ![p].current_guid = r.current_guid,
                                       ![p].current_memory_path = r.current_memory_path]
    /\ UNCHANGED <<turnVars, otherVars, current_guid, current_memory_path, op>>

\* ManageMemoryAgent.store_memory, lines 68-72: the whole document is read.
StoreRead(p) ==
    /\ stores[p].pc = "read"
    /\ \E o \in ReadAnswers(stores[p].faults) :
       LET r == read_json(stores[p].current_guid, stores[p].current_memory_path,
                          dirs, files, o)
       IN  /\ dirs' = r.dirs
           /\ files' = r.files
           /\ stores' = [stores EXCEPT ![p].pc = IF r.raised THEN "done" ELSE "write",
                                       ![p].current_guid = r.current_guid,
                                       ![p].current_memory_path = r.current_memory_path,
                                       ![p].memory_data = r.value,
                                       ![p].returned =
                                           IF r.raised THEN StoreReturns(TRUE) ELSE @]
    /\ UNCHANGED <<turnVars, otherVars, current_guid, current_memory_path, op>>

\* store_memory writing what the document holds now together with its
\* record, as a store under a lock would.
StoreWrite_Merging(p) ==
    /\ stores[p].pc = "write"
    /\ \E o \in WriteAnswers(stores[p].faults) :
       LET path == stores[p].current_memory_path
           r == write_json(stores[p].current_guid, path, dirs, files,
                           files[path].records \cup {memory_id(p)}, o)
       IN  /\ ~r.cut
           /\ dirs' = r.dirs
           /\ files' = r.files
           /\ stores' = [stores EXCEPT ![p].pc = "done",
                                       ![p].current_guid = r.current_guid,
                                       ![p].current_memory_path = r.current_memory_path,
                                       ![p].returned = StoreReturns(r.raised)]
    /\ UNCHANGED <<turnVars, otherVars, current_guid, current_memory_path, op>>

\* ManageMemoryAgent.store_memory, lines 75-93: the record is added to what
\* was read, and the whole document is written.
StoreWrite(p) ==
    /\ stores[p].pc = "write"
    /\ \E o \in WriteAnswers(stores[p].faults) :
       LET r == write_json(stores[p].current_guid, stores[p].current_memory_path,
                           dirs, files,
                           stores[p].memory_data \cup {memory_id(p)}, o)
       IN  /\ ~r.cut
           /\ dirs' = r.dirs
           /\ files' = r.files
           /\ stores' = [stores EXCEPT ![p].pc = "done",
                                       ![p].current_guid = r.current_guid,
                                       ![p].current_memory_path = r.current_memory_path,
                                       ![p].returned = StoreReturns(r.raised)]
    /\ UNCHANGED <<turnVars, otherVars, current_guid, current_memory_path, op>>

NextConcurrent ==
    \E p \in Storers :
        \/ StorePerform(p)
        \/ StoreRead(p)
        \/ StoreWrite(p)

SpecConcurrent == InitConcurrent /\ [][NextConcurrent]_vars

\* The same requests with a storage service that may fail any call.
InitStoreMemory ==
    /\ TurnInit(NoRequest)
    /\ text = Unset
    /\ guid = Unset
    /\ current_guid = None
    /\ current_memory_path = shared_memory_path
    /\ op = NoOp
    /\ \E held \in SUBSET {guid_dir(UuidA)}, sharedRecords \in SUBSET Records :
           /\ dirs = held \cup {shared_memory_path}
           /\ files = [p \in StorePaths |->
                          IF p = shared_memory_path THEN Doc(sharedRecords)
                          ELSE IF p \in held THEN Doc(Records)
                          ELSE NoDoc]
    /\ \E token \in StorerTokens :
           stores = [p \in Storers |-> [Storer(token) EXCEPT !.faults = TRUE]]
    /\ OthersIdle

SpecStoreMemory == InitStoreMemory /\ [][NextConcurrent]_vars

\* ------------------------------------------------------------------------
\* load_agents_from_folder on its own
\* ------------------------------------------------------------------------

\* A source holds at most this many files.
MaxDefinitions == 2

\* The sources: the agents directory of the deployment, and the collections
\* 'agents' and 'multi_agents' of the file share.
Sources == {"bundled", "agents", "multi_agents"}
StoredSources == {"agents", "multi_agents"}

\* The names handlers declare.
HandlerNames == {"X", "Y"}

\* What happens to one file of a source: its handler is imported and
\* instantiated; importing or instantiating raises; the file of a stored
\* collection does not end in _agent.py; read_file gives None for it.
FileKinds(source) ==
    IF source = "bundled" THEN {"loads", "raises"}
    ELSE {"loads", "raises", "other_file", "unreadable"}

NoHandler == [source |-> "none", file |-> 0]

\* The outcomes of a file that leave the registry as it is.
FailedKinds == {"raises", "other_file", "unreadable"}

\* The sources shuffled: the collection 'multi_agents' read before 'agents'.
NextSource_MultiAgentsFirst(source) ==
    CASE source = "bundled" -> "multi_agents"
      [] source = "multi_agents" -> "agents"
      [] OTHER -> "returned"

\* load_agents_from_folder: the order of its three loops.
NextSource(source) ==
    CASE source = "bundled" -> "agents"
      [] source = "agents" -> "multi_agents"
      [] OTHER -> "returned"

InitDiscover ==
    /\ TurnInit(NoRequest)
    /\ text = Unset
    /\ guid = Unset
    /\ current_guid = None
    /\ current_memory_path = shared_memory_path
    /\ dirs = {}
    /\ files = <<>>
    /\ op = NoOp
    /\ stores = <<>>
    /\ input = NoInput
    /\ output = NoOutput
    /\ discovery = [pc |-> "bundled", n |-> 0,
                    declared_agents |-> [name \in HandlerNames |-> NoHandler],
                    loaded |-> {}, last |-> "none"]

\* The per-file try left out: a file that fails ends the loop of its source.
AfterFile_EndsSource(d, kind) ==
    IF kind = "loads"
    THEN [d EXCEPT !.n = @ + 1, !.last = kind]
    ELSE [d EXCEPT !.pc = NextSource(d.pc), !.n = 0, !.last = kind]

\* The try ... except ... continue around the body of each loop, lines 92-101,
\* 110-139 and 156-195, and the two continue of lines 107-108 and 112-113:
\* whatever happens to a file, the loop goes on with the next one.
AfterFile(d, kind) == [d EXCEPT !.n = @ + 1, !.last = kind]

\* One round of a loop over the files of a source, lines 91-101, 106-139 and
\* 149-195: the handler of a file that loads is registered under its name,
\* every other file is passed over.
LoadDefinition ==
    /\ discovery.pc \in Sources
    /\ discovery.n < MaxDefinitions
    /\ \E name \in HandlerNames, kind \in FileKinds(discovery.pc) :
           discovery' =
               IF kind = "loads"
               THEN [AfterFile(discovery, kind) EXCEPT
                        !.declared_agents[name] =
                            [source |-> discovery.pc, file |-> discovery.n + 1],
                        !.loaded = @ \cup {[name |-> name, source |-> discovery.pc]}]
               ELSE AfterFile(discovery, kind)
    /\ UNCHANGED <<turnVars, storeVars, input, output>>

\* The files of the agents directory are done and AzureFileStorageManager()
\* of line 102 returns.
EndBundled ==
    /\ discovery.pc = "bundled"
    /\ discovery' = [discovery EXCEPT !.pc = NextSource(discovery.pc), !.n = 0,
                                      !.last = "listed"]
    /\ UNCHANGED <<turnVars, storeVars, input, output>>

\* AzureFileStorageManager() of line 102 raises: no connection string, or
\* _ensure_share_exists raises.
StorageManagerRaises ==
    /\ discovery.pc = "bundled"
    /\ discovery' = [discovery EXCEPT !.pc = "raised", !.n = 0,
                                      !.last = "storage_manager_raised"]
    /\ UNCHANGED <<turnVars, storeVars, input, output>>

\* The listing of a stored collection fails: list_files logs the exception
\* and returns [], the loop has nothing to go through.
ListFails ==
    /\ discovery.pc \in StoredSources
    /\ discovery.n = 0
    /\ discovery' = [discovery EXCEPT !.pc = NextSource(discovery.pc),
                                      !.last = "list_failed"]
    /\ UNCHANGED <<turnVars, storeVars, input, output>>

\* The files of a stored collection are done.
EndStored ==
    /\ discovery.pc \in StoredSources
    /\ discovery' = [discovery EXCEPT !.pc = NextSource(discovery.pc), !.n = 0,
                                      !.last = "listed"]
    /\ UNCHANGED <<turnVars, storeVars, input, output>>

NextDiscover ==
    \/ LoadDefinition
    \/ EndBundled
    \/ StorageManagerRaises
    \/ ListFails
    \/ EndStored

SpecDiscover == InitDiscover /\ [][NextDiscover]_vars

GuidLeads == {<<>>, <<" ">>}
GuidPrefixes ==
    {<<>>, GuidColon, <<"G", "U", "I", "D", "=">>, <<"g", "u", "i", "d", " ">>,
     <<"g", "u", "i", "d", ":", " ">>, <<"g", "u", "i", "d">>, <<"i", "d", ":">>}
GuidBodies ==
    {UuidA, UuidB, DEFAULT_USER_GUID, Hyphens36, Hex36, Misplaced, Short35,
     Long37, Hello}
GuidTails == {<<>>, <<"\n">>, <<" ", "x">>}

GuidInputs ==
    {l \o p \o b \o t : l \in GuidLeads, p \in GuidPrefixes, b \in GuidBodies,
                        t \in GuidTails}

InitGuid ==
    /\ TurnInit(NoRequest)
    /\ text \in GuidInputs
    /\ guid = Unset
    /\ StoreIdle

\* One call of extract_user_guid.
Extract ==
    /\ guid = Unset
    /\ guid' = extract_user_guid(text)
    /\ UNCHANGED <<snapshotVars, storeVars, otherVars, final_msg, text, pc, req, user_guid, retry_count, needs_follow_up,
                   agent_logs, messages, call, result, kwargs, scope, nProvider,
                   nPerform, nSleep, nFollowUp, sent, response, http>>

NextGuid == Extract

SpecGuid == InitGuid /\ [][NextGuid]_vars


\* ------------------------------------------------------------------------
\* Functions on their own: input holds the function and its argument, output
\* what the function returns
\* ------------------------------------------------------------------------

Int5 == NonString("<int>", <<"5">>)
EmptyList == NonString("<list>", <<"[", "]">>)

\* What a message holds under 'content', Absent when it has no such key.
Contents ==
    {Absent, None, <<>>, <<" ">>, Hello, Bob, UuidA, Int5,
     NonString("<int>", <<"0">>), NonString("<float>", <<"1", ".", "5">>),
     NonString("<bool>", <<"T", "r", "u", "e">>),
     NonString("<bool>", <<"F", "a", "l", "s", "e">>), EmptyList,
     NonString("<dict>", <<"{", "}">>)}

\* The history elements handed to ensure_string_content: mappings with and
\* without role and content, and values that are no mapping.
MessageInputs ==
    {[role |-> r, content |-> c] :
        r \in {"<absent>", "user", "assistant", "system"}, c \in Contents}
        \cup {NonDict(None), NonDict(Hello), NonDict(Int5), NonDict(EmptyList)}

\* What a handler returns.
PerformReturns == {None, <<>>, Hello, Int5, EmptyList, NonString("<dict>", <<"{", "}">>)}

AgentCompleted ==
    <<"A", "g", "e", "n", "t", " ", "c", "o", "m", "p", "l", "e", "t", "e", "d", " ",
      "s", "u", "c", "c", "e", "s", "s", "f", "u", "l", "l", "y">>

\* get_response, lines 561-578: the function turn built from what perform
\* returned.
function_turn(agent_name, ret) ==
    [role |-> "function", name |-> agent_name,
     content |-> IF ret = None THEN AgentCompleted ELSE Str(ret),
     memory |-> <<>>]

\* A memory document holds at most this many entries.
MaxEntries == 3

\* a < b for two strings, as Python orders them: by the code points of their
\* characters, a proper prefix first.
RECURSIVE TextLess(_, _)
TextLess(a, b) ==
    LET CodePoints == <<" ", "-", "0", "1", "2", "3", "4", "5", "6", "7", "8", "9", ":">>
        ord(c) == CHOOSE i \in 1..Len(CodePoints) : CodePoints[i] = c
    IN  IF b = <<>> THEN FALSE
        ELSE IF a = <<>> THEN TRUE
        ELSE IF a[1] # b[1] THEN ord(a[1]) < ord(b[1])
        ELSE TextLess(Tail(a), Tail(b))

\* dict.get(key, default) of a record of the document.
Get(value, default) == IF value = Absent THEN default ELSE value

\* The records by ascending (date, time), records of one key in the order
\* they came.
RECURSIVE sorted_ascending(_)
sorted_ascending(memories) ==
    LET key(x) == <<Get(x.date, <<>>), Get(x.time, <<>>)>>
        less(k, l) == TextLess(k[1], l[1]) \/ (k[1] = l[1] /\ TextLess(k[2], l[2]))
    IN  IF memories = <<>> THEN <<>>
        ELSE LET x == memories[Len(memories)]
                 rest == sorted_ascending(SubSeq(memories, 1, Len(memories) - 1))
                 before == {i \in 1..Len(rest) : ~less(key(x), key(rest[i]))}
                 n == Cardinality(before)
             IN  SubSeq(rest, 1, n) \o <<x>> \o SubSeq(rest, n + 1, Len(rest))

\* sorted(memories, key=lambda x: (x.get('date', ''), x.get('time', '')),
\* reverse=True): by descending key, records of one key in the order they
\* came.
RECURSIVE sorted_reverse(_)
sorted_reverse(memories) ==
    LET key(x) == <<Get(x.date, <<>>), Get(x.time, <<>>)>>
        less(k, l) == TextLess(k[1], l[1]) \/ (k[1] = l[1] /\ TextLess(k[2], l[2]))
    IN  IF memories = <<>> THEN <<>>
        ELSE LET x == memories[Len(memories)]
                 rest == sorted_reverse(SubSeq(memories, 1, Len(memories) - 1))
                 before == {i \in 1..Len(rest) : ~less(key(rest[i]), key(x))}
                 n == Cardinality(before)
             IN  SubSeq(rest, 1, n) \o <<x>> \o SubSeq(rest, n + 1, Len(rest))

\* The line of one record, lines 93-102 and 143-152. The bullet U+2022 that opens
\* the line is written "*".
memory_line(memory) ==
    LET message == Get(memory.message, <<>>)
        theme == Get(memory.theme, <<"U", "n", "k", "n", "o", "w", "n">>)
        date == Get(memory.date, <<>>)
        time == Get(memory.time, <<>>)
    IN  IF date # <<>> /\ time # <<>>
        THEN <<"*", " ">> \o message \o <<" ", "(", "T", "h", "e", "m", "e",
                                      ":", " ">> \o theme
                 \o <<",", " ", "R", "e", "c", "o", "r", "d", "e", "d",
                      ":", " ">> \o date \o <<" ">> \o time \o <<")">>
        ELSE <<"*", " ">> \o message \o <<" ", "(", "T", "h", "e", "m", "e",
                                      ":", " ">> \o theme \o <<")">>

\* "\n".join(lines)
RECURSIVE Join(_)
Join(lines) ==
    IF lines = <<>> THEN <<>>
    ELSE IF Len(lines) = 1 THEN lines[1]
    ELSE lines[1] \o <<"\n">> \o Join(Tail(lines))

\* ContextMemoryAgent._format_legacy_memories, called without keywords, for a
\* storage manager whose current_guid is cg.
format_legacy_memories(memories, cg, max_messages, full_recall) ==
    LET memory_source ==
            IF cg # None /\ cg # <<>>
            THEN <<"f", "o", "r", " ", "u", "s", "e", "r", " ", "I", "D",
                   " ">> \o cg
            ELSE <<"f", "r", "o", "m", " ", "s", "h", "a", "r", "e", "d",
                   " ", "m", "e", "m", "o", "r", "y">>
        recent == sorted_reverse(memories)
        chosen == IF full_recall THEN recent
                  ELSE SubSeq(recent, 1, IF max_messages < Len(recent)
                                         THEN max_messages ELSE Len(recent))
        memory_lines == [i \in 1..Len(chosen) |-> memory_line(chosen[i])]
    IN  IF memories = <<>>
        THEN <<"N", "o", " ", "m", "e", "m", "o", "r", "i", "e", "s", " ",
               "f", "o", "u", "n", "d", " ", "i", "n", " ", "t", "h", "e",
               " ", "f", "o", "r", "m", "a", "t", " ", "I", " ", "u", "n",
               "d", "e", "r", "s", "t", "a", "n", "d", ".">>
        ELSE IF memory_lines = <<>>
        THEN IF full_recall
             THEN <<"N", "o", " ", "m", "e", "m", "o", "r", "i", "e", "s",
                    " ", "f", "o", "u", "n", "d", ".">>
             ELSE <<"N", "o", " ", "m", "a", "t", "c", "h", "i", "n", "g",
                    " ", "m", "e", "m", "o", "r", "i", "e", "s", " ", "f",
                    "o", "u", "n", "d", ".">>
        ELSE (IF full_recall
              THEN <<"A", "l", "l", " ", "m", "e", "m", "o", "r", "i", "e",
                     "s", " ">>
              ELSE <<"H", "e", "r", "e", "'", "s", " ", "w", "h", "a", "t",
                     " ", "I", " ", "r", "e", "m", "e", "m", "b", "e", "r",
                     " ">>)
                 \o memory_source \o <<":", "\n">> \o Join(memory_lines)

\* Every mapping taken for a record, with 'message' or without.
IsRecord_AnyMapping(value) == value.isdict

\* _recall_context, line 72: isinstance(value, dict) and 'message' in value.
IsRecord(value) == value.isdict /\ value.message # Absent

\* ContextMemoryAgent._recall_context, called without keywords: memory_data
\* holds the values of the document read_json returned, in the order of the
\* document, cg the current_guid of the storage manager.
recall_context(memory_data, cg, max_messages, full_recall) ==
    LET recognised == {i \in 1..Len(memory_data) : IsRecord(memory_data[i])}
        RECURSIVE select(_)
        select(n) ==
            IF n = 0 THEN <<>>
            ELSE IF n \in recognised THEN Append(select(n - 1), memory_data[n])
            ELSE select(n - 1)
        legacy_memories == select(Len(memory_data))
    IN  IF memory_data = <<>>
        THEN IF cg # None /\ cg # <<>>
             THEN <<"I", " ", "d", "o", "n", "'", "t", " ", "h", "a", "v",
                    "e", " ", "a", "n", "y", " ", "m", "e", "m", "o", "r",
                    "i", "e", "s", " ", "s", "t", "o", "r", "e", "d", " ",
                    "y", "e", "t", " ", "f", "o", "r", " ", "u", "s", "e",
                    "r", " ", "I", "D", " ">>
                      \o cg \o <<".">>
             ELSE <<"I", " ", "d", "o", "n", "'", "t", " ", "h", "a", "v",
                    "e", " ", "a", "n", "y", " ", "m", "e", "m", "o", "r",
                    "i", "e", "s", " ", "s", "t", "o", "r", "e", "d", " ",
                    "i", "n", " ", "t", "h", "e", " ", "s", "h", "a", "r",
                    "e", "d", " ", "m", "e", "m", "o", "r", "y", " ", "y",
                    "e", "t", ".">>
        ELSE IF legacy_memories = <<>>
        THEN <<"N", "o", " ", "m", "e", "m", "o", "r", "i", "e", "s", " ",
               "f", "o", "u", "n", "d", " ", "f", "o", "r", " ", "t", "h",
               "i", "s", " ", "s", "e", "s", "s", "i", "o", "n", ".">>
        ELSE format_legacy_memories(legacy_memories, cg, max_messages,
                                    full_recall)

\* A value of a memory document: a mapping or not, and what it holds under
\* 'message', 'theme', 'date' and 'time'. A list holding the string 'message'
\* is no mapping although 'message' is in it.
Value(isdict, message, theme, date, time) ==
    [isdict |-> isdict, message |-> message, theme |-> theme, date |-> date,
     time |-> time]

MemoryValues ==
    {Value(TRUE, <<"a">>, <<"t">>, <<"1">>, <<"1">>),
     Value(TRUE, <<"b">>, Absent, <<"1">>, <<"2">>),
     Value(TRUE, <<"c">>, <<"t">>, <<"2">>, <<"1">>),
     Value(TRUE, <<"d">>, <<"t">>, <<"1">>, <<"1">>),
     Value(TRUE, <<"e">>, Absent, Absent, Absent),
     Value(TRUE, Absent, <<"t">>, <<"2">>, <<"2">>),
     Value(FALSE, Absent, Absent, Absent, Absent),
     Value(FALSE, <<"i", "n">>, Absent, Absent, Absent)}

\* The documents: up to MaxEntries values, in the order of the document.
MemoryDocuments ==
    UNION {[1..n -> MemoryValues] : n \in 0..MaxEntries}

\* _initialize_context_memory, lines 279 and 293: the length a snapshot is
\* cut to.
MemoryCap == 5000

\* The result of perform kept whole.
memory_snapshot_Uncut(outcome, unavailable) ==
    IF outcome.raises
    THEN <<"C", "o", "n", "t", "e", "x", "t", " ", "m", "e", "m", "o", "r",
           "y", " ", "i", "n", "i", "t", "i", "a", "l", "i", "z", "a", "t",
           "i", "o", "n", " ", "f", "a", "i", "l", "e", "d", ".">>
    ELSE IF Falsy(outcome.result) THEN unavailable
    ELSE Str(outcome.result)

\* _initialize_context_memory, lines 274-282 and 289-296: the snapshot made of
\* what ContextMemory.perform did, str(result)[:5000] of a result that is
\* truthy, the text unavailable of one that is not, and the text of the
\* except clause when perform or set_memory_context raised.
memory_snapshot(outcome, unavailable) ==
    IF outcome.raises
    THEN <<"C", "o", "n", "t", "e", "x", "t", " ", "m", "e", "m", "o", "r",
           "y", " ", "i", "n", "i", "t", "i", "a", "l", "i", "z", "a", "t",
           "i", "o", "n", " ", "f", "a", "i", "l", "e", "d", ".">>
    ELSE IF Falsy(outcome.result) THEN unavailable
    ELSE SubSeq(Str(outcome.result), 1,
                IF Len(Str(outcome.result)) < MemoryCap
                THEN Len(Str(outcome.result)) ELSE MemoryCap)

\* Assistant._initialize_context_memory for a registry with or without a
\* ContextMemory handler and for what the two calls of perform do.
initialize_snapshots(has_agent, shared, user) ==
    LET no_shared ==
            <<"N", "o", " ", "s", "h", "a", "r", "e", "d", " ", "c", "o",
              "n", "t", "e", "x", "t", " ", "m", "e", "m", "o", "r", "y",
              " ", "a", "v", "a", "i", "l", "a", "b", "l", "e", ".">>
        no_specific ==
            <<"N", "o", " ", "s", "p", "e", "c", "i", "f", "i", "c", " ",
              "c", "o", "n", "t", "e", "x", "t", " ", "m", "e", "m", "o",
              "r", "y", " ", "a", "v", "a", "i", "l", "a", "b", "l", "e",
              ".">>
    IN  IF has_agent
        THEN [raised |-> FALSE,
              shared_memory |-> memory_snapshot(shared, no_shared),
              user_memory |-> memory_snapshot(user, no_specific)]
        ELSE [raised |-> FALSE, shared_memory |-> no_shared,
              user_memory |-> no_specific]

\* What one call of ContextMemory.perform does: it raises, or it returns
\* None, a string around the cap in length, or a number.
PerformOutcomes ==
    {[raises |-> TRUE, result |-> None]}
        \cup {[raises |-> FALSE, result |-> r] :
                 r \in {None, <<>>, Hello, Int5, Rep("x", MemoryCap - 1),
                        Rep("x", MemoryCap), Rep("x", MemoryCap) \o <<"y">>,
                        <<"a">> \o Rep("x", MemoryCap - 1) \o <<"y", "z">>}}

\* The delimiter between the two channels of a reply.
VoiceDelimiter == <<"|", "|", "|", "V", "O", "I", "C", "E", "|", "|", "|">>

\* str.split(sep): the pieces of t between the occurrences of sep, found from
\* the left, an occurrence starting where the one before ended at the
\* earliest.
RECURSIVE Split(_, _)
Split(t, sep) ==
    LET at == {i \in 1..(Len(t) - Len(sep) + 1) :
                  SubSeq(t, i, i + Len(sep) - 1) = sep}
    IN  IF at = {} THEN <<t>>
        ELSE LET n == CHOOSE i \in at : \A j \in at : i <= j
             IN  <<SubSeq(t, 1, n - 1)>>
                     \o Split(SubSeq(t, n + Len(sep), Len(t)), sep)

\* The formatting marks left in.
remove_formatting_Kept(t) == t

\* re.sub of the pattern \*\*|<backquote>|#|>|--- by '': the character U+0060
\* is written "<backquote>".
RECURSIVE remove_formatting(_)
remove_formatting(t) ==
    IF t = <<>> THEN <<>>
    ELSE IF Len(t) >= 2 /\ SubSeq(t, 1, 2) = <<"*", "*">>
    THEN remove_formatting(SubSeq(t, 3, Len(t)))
    ELSE IF t[1] \in {"<backquote>", "#", ">"}
    THEN remove_formatting(Tail(t))
    ELSE IF Len(t) >= 3 /\ SubSeq(t, 1, 3) = <<"-", "-", "-">>
    THEN remove_formatting(SubSeq(t, 4, Len(t)))
    ELSE <<t[1]>> \o remove_formatting(Tail(t))

\* re.sub(r'\s+', ' ', t)
RECURSIVE collapse_whitespace(_)
collapse_whitespace(t) ==
    IF t = <<>> THEN <<>>
    ELSE IF t[1] \in Whitespace
    THEN <<" ">> \o collapse_whitespace(LStrip(t))
    ELSE <<t[1]>> \o collapse_whitespace(Tail(t))

\* The whole content taken for the spoken channel as well.
parse_response_with_voice_Echo(content) ==
    [formatted_response |-> Strip(content), voice_response |-> Strip(content)]

\* Assistant.parse_response_with_voice
parse_response_with_voice(content) ==
    IF content = <<>>
    THEN [formatted_response |-> <<>>, voice_response |-> <<>>]
    ELSE LET parts == Split(content, VoiceDelimiter)
         IN  IF Len(parts) >= 2
             THEN [formatted_response |-> Strip(parts[1]),
                   voice_response |-> Strip(parts[2])]
             ELSE LET formatted_response == Strip(content)
                      sentences == Split(formatted_response, <<".">>)
                  IN  [formatted_response |-> formatted_response,
                       voice_response |->
                           Strip(collapse_whitespace(remove_formatting(
                               Strip(sentences[1]) \o <<".">>)))]

\* The final contents of the model: replies with and without formatting,
\* periods and surrounding whitespace, on their own and around one or two
\* delimiters.
VoiceContents ==
    LET BoldText == <<"*", "*", "b", "o", "l", "d", " ", "t", "e", "x",
                      "t", "*", "*">>
        SpokenLine == <<"S", "h", "o", "r", "t", " ", "s", "p", "o", "k",
                        "e", "n", " ", "l", "i", "n", "e", ".">>
        Answer == <<"T", "h", "i", "s", " ", "i", "s", " ", "t", "h", "e",
                    " ", "a", "n", "s", "w", "e", "r", ".", " ", "M", "o",
                    "r", "e", " ", "d", "e", "t", "a", "i", "l", " ", "f",
                    "o", "l", "l", "o", "w", "s", ".">>
        one == {<<>>, Hello, <<" ", "\n">>, <<" ", "a", ".", " ", "b", " ">>,
                <<"*", "*", "b", "*", "*", ".", "c">>,
                <<"#", " ", "x", "\n", ">", " ", "<backquote>", "y",
                  "<backquote>">>,
                <<"a", "-", "-", "-", "b", ".">>, <<"-", "*", "*", "-", "-">>,
                BoldText, SpokenLine, Answer}
        few == {<<>>, Hello, <<" ", "a", ".", " ", "b", " ">>}
    IN  one \cup {s \o VoiceDelimiter \o t : s \in one, t \in one}
            \cup {s \o VoiceDelimiter \o t \o VoiceDelimiter \o u :
                     s \in few, t \in few, u \in few}

\* ContextMemoryAgent.perform, line 42: max_messages of a call that names none.
DefaultMaxMessages == 10

\* full_recall taken as the caller gave it.
perform_AsAsked(kw, memory_data, cg) ==
    recall_context(memory_data, cg,
                   IF kw.has_max_messages THEN kw.max_messages
                   ELSE DefaultMaxMessages,
                   kw.full_recall)

\* ContextMemoryAgent.perform, called without keywords or with keywords=[],
\* after set_memory_context selected cg and for the document read_json
\* returns: a call that names neither max_messages nor keywords is a full
\* recall (lines 48-49).
perform(kw, memory_data, cg) ==
    LET max_messages == IF kw.has_max_messages THEN kw.max_messages
                        ELSE DefaultMaxMessages
        full_recall == IF ~kw.has_max_messages /\ ~kw.has_keywords
                       THEN TRUE ELSE kw.full_recall
    IN  recall_context(memory_data, cg, max_messages, full_recall)

\* The calls of perform: with and without max_messages, keywords=[] and
\* full_recall, on the documents of up to two entries and on a document of
\* DefaultMaxMessages + 1 records written one after the other.
PerformInputs ==
    LET digit == <<"0", "1", "2", "3", "4", "5", "6", "7", "8", "9">>
        record(i) == Value(TRUE, <<"m">>, Absent, <<"1">>,
                           <<digit[(i \div 10) + 1], digit[(i % 10) + 1]>>)
        documents == {d \in MemoryDocuments : Len(d) <= 2}
                         \cup {[i \in 1..(DefaultMaxMessages + 1) |-> record(i)]}
        calls == {[has_max_messages |-> m, max_messages |-> IF m THEN n ELSE 0,
                   has_keywords |-> k, full_recall |-> f] :
                     m \in BOOLEAN, n \in {1, 2}, k \in BOOLEAN, f \in BOOLEAN}
    IN  {[kwargs |-> c, memory_data |-> d, current_guid |-> None] :
            c \in calls, d \in documents}

\* Calls of write_json on a share that holds the shared document: in the
\* shared scope or in an identity scope, under every way the storage calls
\* of MaxWriteAttempts runs of _write_shared_memory may end.
WriteJsonInputs ==
    LET share == [p \in StorePaths |->
                     IF p = shared_memory_path THEN Doc({}) ELSE NoDoc]
    IN  {[current_guid |-> cg,
          current_memory_path |-> IF cg = None THEN shared_memory_path
                                  ELSE guid_dir(cg),
          dirs |-> {shared_memory_path}, files |-> share, data |-> Records,
          outcomes |-> [guid |-> g, attempts |-> a]] :
            cg \in {None, UuidA}, g \in {"ok", "error"},
            a \in AttemptSequences(MaxWriteAttempts)}

FunctionInputs ==
    {[fn |-> "ensure_string_content", arg |-> m] : m \in MessageInputs}
        \cup {[fn |-> "function_turn", arg |-> r] : r \in PerformReturns}
        \cup {[fn |-> "recall_context",
               arg |-> [memory_data |-> d, current_guid |-> g, max_messages |-> 10,
                        full_recall |-> TRUE]] :
                  d \in MemoryDocuments, g \in {None, UuidA}}
        \cup {[fn |-> "initialize_context_memory",
               arg |-> [has_agent |-> a, shared |-> s, user |-> u]] :
                  a \in BOOLEAN, s \in PerformOutcomes, u \in PerformOutcomes}
        \cup {[fn |-> "parse_response_with_voice", arg |-> c] : c \in VoiceContents}
        \cup {[fn |-> "perform", arg |-> a] : a \in PerformInputs}
        \cup {[fn |-> "write_json", arg |-> a] : a \in WriteJsonInputs}

InitFunctions ==
    /\ TurnInit(NoRequest)
    /\ text = Unset
    /\ guid = Unset
    /\ current_guid = None
    /\ current_memory_path = shared_memory_path
    /\ dirs = {}
    /\ files = <<>>
    /\ op = NoOp
    /\ stores = <<>>
    /\ discovery = NoDiscovery
    /\ input \in FunctionInputs
    /\ output = NoOutput

\* One call of ensure_string_content.
EnsureStringContent ==
    /\ ~output.returned
    /\ input.fn = "ensure_string_content"
    /\ output' = [returned |-> TRUE, value |-> ensure_string_content(input.arg)]
    /\ UNCHANGED <<turnVars, storeVars, discovery, input>>

\* A dispatch that performed ManageMemory appends the function turn.
AppendFunctionTurn ==
    /\ ~output.returned
    /\ input.fn = "function_turn"
    /\ output' = [returned |-> TRUE, value |-> function_turn("ManageMemory", input.arg)]
    /\ UNCHANGED <<turnVars, storeVars, discovery, input>>

\* One call of ContextMemoryAgent._recall_context.
RecallContext ==
    /\ ~output.returned
    /\ input.fn = "recall_context"
    /\ output' = [returned |-> TRUE,
                  value |-> recall_context(input.arg.memory_data,
                                           input.arg.current_guid,
                                           input.arg.max_messages,
                                           input.arg.full_recall)]
    /\ UNCHANGED <<turnVars, storeVars, discovery, input>>

\* One call of Assistant._initialize_context_memory.
InitializeContextMemory ==
    /\ ~output.returned
    /\ input.fn = "initialize_context_memory"
    /\ output' = [returned |-> TRUE,
                  value |-> initialize_snapshots(input.arg.has_agent,
                                                 input.arg.shared, input.arg.user)]
    /\ UNCHANGED <<turnVars, storeVars, discovery, input>>

\* One call of Assistant.parse_response_with_voice.
ParseResponseWithVoice ==
    /\ ~output.returned
    /\ input.fn = "parse_response_with_voice"
    /\ output' = [returned |-> TRUE, value |-> parse_response_with_voice(input.arg)]
    /\ UNCHANGED <<turnVars, storeVars, discovery, input>>

\* One call of ContextMemoryAgent.perform.
Perform ==
    /\ ~output.returned
    /\ input.fn = "perform"
    /\ output' = [returned |-> TRUE,
                  value |-> perform(input.arg.kwargs, input.arg.memory_data,
                                    input.arg.current_guid)]
    /\ UNCHANGED <<turnVars, storeVars, discovery, input>>

\* One call of write_json, taken as far as the attempts provide for.
WriteJsonRun ==
    /\ ~output.returned
    /\ input.fn = "write_json"
    /\ output' = [returned |-> TRUE,
                  value |-> write_json(input.arg.current_guid,
                                       input.arg.current_memory_path,
                                       input.arg.dirs, input.arg.files,
                                       input.arg.data, input.arg.outcomes)]
    /\ UNCHANGED <<turnVars, storeVars, discovery, input>>

NextFunctions ==
    \/ EnsureStringContent
    \/ AppendFunctionTurn
    \/ RecallContext
    \/ InitializeContextMemory
    \/ ParseResponseWithVoice
    \/ Perform
    \/ WriteJsonRun

SpecFunctions == InitFunctions /\ [][NextFunctions]_vars


\* ------------------------------------------------------------------------
\* Properties
\* ------------------------------------------------------------------------

\* The canonical UUID text: 36 characters, 8-4-4-4-12 hex groups.
IsCanonicalUuid(s) == Len(s) = 36 /\ UuidShape(s)

\* C1: every turn ends and the follow-up signal sends the loop back to
\* Complete at most max_retries times, which bounds the provider calls and the
\* handler invocations of a turn. The model cuts a turn off at
\* MaxProviderCalls provider calls; the statement is the bound itself.
C1_FollowUpsBounded == nFollowUp <= max_retries

\* No identity anywhere in the request.
NoIdentitySupplied(r) ==
    /\ Falsy(r.user_guid)
    /\ extract_user_guid(r.user_input) = None
    /\ check_first_message_for_guid(r.conversation_history) = None

\* C2: when the request supplies no identity, the response carries the default
\* token, and every memory capability performed in the turn works on the
\* default identity's own scope memory/<default token> (the store answering).
C2_DefaultIdentityScope ==
    NoIdentitySupplied(req) =>
        /\ http.status = 200 => http.user_guid = DEFAULT_USER_GUID
        /\ (scope # NoScope /\ scope.store_ok) =>
               scope.path = guid_dir(DEFAULT_USER_GUID)

\* C3: while a request is handled, the session's identity token is a
\* canonical UUID text.
C3_IdentityIsUuid == pc # "main" => IsCanonicalUuid(user_guid)

\* The identity tokens in the words of the claim: the whole trimmed text is a
\* canonical UUID, or the label guid with its separator wrapping one.
IsIdentityToken(s) ==
    LET t == Strip(s)
    IN  \/ IsCanonicalUuid(t)
        \/ /\ GuidLabel(t)
           /\ SepRun(SubSeq(t, 5, Len(t))) >= 1
           /\ IsCanonicalUuid(LabeledToken(t))

\* C4: extract_user_guid recognises a token exactly for the texts that are,
\* trimmed, a canonical UUID or the labeled form around a token of the UUID
\* grammar.
C4_RecognisesExactlyTokens ==
    guid # Unset => ((guid # None) <=> IsIdentityToken(text))

\* C5: arguments that are malformed JSON end the turn with the
\* parameter-parsing error, and perform is not called for that request.
C5_MalformedNeverPerformed ==
    [][(pc = "dispatch" /\ call.args.kind = "malformed") =>
           /\ nPerform' = nPerform
           /\ pc' = "returned"
           /\ response'.kind = "error_parsing_parameters"]_vars

StatusIncomplete == Dict("absent", "\"incomplete\"", "absent")
StatusSuccess == Dict("absent", "\"success\"", "absent")

\* A step in which perform was called and returned.
PerformReturned == nPerform' = nPerform + 1 /\ Len(agent_logs') = Len(agent_logs) + 1

\* A step in which perform was called and raised.
PerformRaised == nPerform' = nPerform + 1 /\ agent_logs' = agent_logs

\* A step in which a provider call raised.
ProviderRaised == nProvider' = nProvider + 1 /\ retry_count' = retry_count + 1

FollowUpSignal(r) ==
    /\ r.kind = "dict"
    /\ \/ r.error \in {"\"boom\"", "true", "1"}
       \/ r.status = "\"incomplete\""
       \/ r.raa \in {"true", "1"}

C9_HandlerExceptionTerminal ==
    /\ [][PerformRaised =>
            /\ pc' = "returned"
            /\ response' = [kind |-> "error_parsing_parameters", logs |-> 0, agent |-> ""]
            /\ retry_count' = retry_count
            /\ nSleep' = nSleep
            /\ nProvider' = nProvider]_vars
    /\ [][(pc \in {"returned", "done"}) =>
            /\ nProvider' = nProvider
            /\ nPerform' = nPerform
            /\ (pc' \in {"returned", "done"})]_vars

C9_Witness ==
    /\ pc = "returned"
    /\ response.kind = "error_parsing_parameters"
    /\ nPerform = Len(agent_logs) + 1
    /\ retry_count = 0

UnknownRequested ==
    /\ pc = "complete"
    /\ nProvider' = nProvider + 1
    /\ call'.name \notin known_agents \cup {NoCall.name}

\* C11: when the provider requests a capability the registry does not hold,
\* the turn ends at once with a response naming that capability: no handler
\* is invoked, no further provider call is made, and the retry counter stays
\* as it was.
C11_UnknownCapabilityEndsTurn ==
    /\ [][UnknownRequested =>
            /\ pc' = "returned"
            /\ response' = [kind |-> "agent_not_exist", logs |-> 0,
                            agent |-> call'.name]
            /\ nPerform' = nPerform
            /\ agent_logs' = agent_logs
            /\ retry_count' = retry_count
            /\ nSleep' = nSleep]_vars
    /\ [][(response.kind = "agent_not_exist") =>
            /\ nProvider' = nProvider
            /\ nPerform' = nPerform
            /\ retry_count' = retry_count
            /\ response' = response
            /\ pc' = "done"]_vars

C11_Witness ==
    /\ pc = "returned"
    /\ response.kind = "agent_not_exist"
    /\ response.agent = UnknownAgent
    /\ call.name = UnknownAgent
    /\ retry_count = 1
    /\ nPerform = 1

\* C12: every invocation of ManageMemory or ContextMemory receives as
\* user_guid the session's identity token, whatever user_guid the provider
\* put into the arguments (another token, null, or none).
C12_MemoryHandlersGetSessionIdentity ==
    [][(nPerform' = nPerform + 1 /\ call.name \in MemoryAgents) =>
           /\ kwargs'.user_guid = user_guid
           /\ user_guid' = user_guid]_vars

C12_Witness ==
    /\ nPerform = 1
    /\ call.name \in MemoryAgents
    /\ call.args.user_guid = UuidB
    /\ user_guid # UuidB
    /\ kwargs.user_guid = user_guid

\* C13: every handler invocation comes directly after a provider call that
\* requested that handler; a provider call is followed by at most one
\* invocation; two invocations never follow each other without a provider
\* call between them.
C13_CompleteDispatchAlternation ==
    /\ [][nPerform' = nPerform + 1 =>
            /\ pc = "dispatch"
            /\ pc' # "dispatch"
            /\ call.name \in known_agents
            /\ call' = call
            /\ nProvider' = nProvider
            /\ (PerformReturned => agent_logs'[Len(agent_logs')] = call.name)]_vars
    /\ [][pc' = "dispatch" =>
            /\ pc = "complete"
            /\ nProvider' = nProvider + 1
            /\ nPerform' = nPerform
            /\ call'.name \in known_agents]_vars
    /\ [][nPerform' \in {nPerform, nPerform + 1}]_vars

C13_Witness ==
    /\ nPerform = 2
    /\ nProvider = 2
    /\ Len(agent_logs) = 2
    /\ agent_logs[1] # agent_logs[2]
    /\ pc = "finalize"

\* No element of the history is something else than a mapping.
HistoryOfMappings(h) == \A i \in 1..Len(h) : h[i] # NotADict

\* C16: if the inbound text, trimmed, is a bare identity token and that token
\* is the session's identity once get_response has resolved the identity,
\* get_response returns the memory-loaded acknowledgement with an empty log
\* and makes no provider call and no handler invocation.
C16_GuidOnlyPromptAcknowledged ==
    (/\ pc \notin {"main", "get_response"}
     /\ http.status \notin {400, 500}
     /\ HistoryOfMappings(req.conversation_history)
     /\ IsCanonicalUuid(Strip(req.user_input))
     /\ user_guid = Strip(req.user_input))
        => /\ response = [kind |-> "memory_loaded", logs |-> 0, agent |-> ""]
           /\ nProvider = 0
           /\ nPerform = 0
           /\ messages = <<>>

C16_Witness ==
    /\ pc = "done"
    /\ http = [status |-> 200, user_guid |-> Strip(req.user_input)]
    /\ req.user_input # Strip(req.user_input)
    /\ response.kind = "memory_loaded"
    /\ nProvider = 0

\* The step of get_response that resolves the identity without raising.
IdentityResolved ==
    /\ pc = "get_response"
    /\ pc' # "get_response"
    /\ response'.kind # "critical_error"

\* The token of the retained history's first turn, else the token found in
\* the inbound text.
TargetGuid(r) ==
    LET guid_from_history ==
            check_first_message_for_guid(TrimHistory(r.conversation_history))
    IN  IF guid_from_history # None THEN guid_from_history
        ELSE extract_user_guid(r.user_input)

\* C17: when identity resolution yields a token different from the session's
\* token, the session takes it and both cached snapshots are loaded again
\* before any message is composed; when it yields none, or the session's own
\* token, the token and both snapshots stay as they are.
C17_ReloadExactlyOnIdentityChange ==
    [][IdentityResolved =>
           IF ~Falsy(TargetGuid(req)) /\ TargetGuid(req) # user_guid
           THEN /\ user_guid' = TargetGuid(req)
                /\ nInit' = nInit + 1
                /\ shared_memory' = Snapshot(shared_memory_path, nInit')
                /\ user_memory'.load = nInit'
                /\ IsCanonicalUuid(user_guid') =>
                       user_memory'.scope = guid_dir(user_guid')
                /\ messages' # <<>> =>
                       messages'[1].memory = <<shared_memory', user_memory'>>
           ELSE /\ UNCHANGED <<user_guid, shared_memory, user_memory, nInit>>
                /\ messages' # <<>> =>
                       messages'[1].memory = <<shared_memory, user_memory>>]_vars

C17_Witness ==
    /\ pc = "complete"
    /\ nInit = 3
    /\ user_guid = UuidB
    /\ req.user_guid = UuidA
    /\ user_memory = Snapshot(guid_dir(UuidB), 3)
    /\ messages[1].memory = <<shared_memory, user_memory>>

\* C18: an explicit user_guid of the request overrides every identity derived
\* from the history or from user_input: it is the session's identity for the
\* whole turn and the user_guid of the response.
C18_ExplicitUserGuidWins ==
    (~Falsy(req.user_guid) /\ pc # "main" /\ http.status \notin {400, 500}) =>
        /\ user_guid = req.user_guid
        /\ http.status = 200 => http.user_guid = req.user_guid

\* A user turn whose content is nothing but an identity token.
IsTokenTurn(m) == m.role = "user" /\ IsCanonicalUuid(Strip(m.content))

\* History turns as the provider is sent them.
AsSent(turns) ==
    [i \in 1..Len(turns) |->
        [role |-> turns[i].role, name |-> "", content |-> turns[i].content,
         memory |-> <<>>]]

\* The history turns between the system message and the new user turn.
Replayed == SubSeq(messages, 2, Len(messages) - 1)

\* A request body was accepted and get_response is past identity resolution.
PastResolution ==
    /\ pc \in {"complete", "dispatch", "finalize", "returned", "done"}
    /\ http.status \notin {400, 500}

\* C14: a history whose first turn is a user message holding exactly an
\* identity token is replayed from its second turn on, and that token is the
\* session's identity for the turn, whatever the length of the history.
C14_FirstTurnTokenAdopted ==
    LET h == req.conversation_history
        from == IF Len(h) - HistoryLimit + 1 > 2 THEN Len(h) - HistoryLimit + 1 ELSE 2
    IN  (PastResolution /\ h # <<>> /\ IsTokenTurn(h[1])) =>
            /\ user_guid = h[1].content
            /\ messages # <<>> => Replayed = AsSent(SubSeq(h, from, Len(h)))

\* The most recent HistoryLimit turns of h, in their order.
Retained(h) ==
    LET n == IF Len(h) > HistoryLimit THEN HistoryLimit ELSE Len(h)
    IN  [i \in 1..n |-> h[Len(h) - n + i]]

\* The new user turn as the provider is sent it.
NewUserTurn ==
    [role |-> "user", name |-> "", content |-> req.user_input, memory |-> <<>>]

\* C15, as claimed: the messages of the first provider call are one system
\* message, the most recent 20 turns of the history in their order, and the
\* new user turn.
C15_SystemRetainedUser ==
    (messages # <<>> /\ nPerform = 0) =>
        /\ messages[1].role = "system"
        /\ Replayed = AsSent(Retained(req.conversation_history))
        /\ messages[Len(messages)] = NewUserTurn

\* The retained turns that are replayed: all of them, but for a first
\* retained turn that is a user turn holding nothing but an identity token.
ReplayedTurns(h) ==
    IF Retained(h) # <<>> /\ IsTokenTurn(Retained(h)[1])
    THEN Tail(Retained(h))
    ELSE Retained(h)

\* C15, amended: the messages of the first provider call are one system
\* message, then the most recent 20 turns of the history in their order,
\* without the first of them when it is a user turn holding nothing but an
\* identity token, then the new user turn.
C15_SystemReplayedUser ==
    (messages # <<>> /\ nPerform = 0) =>
        /\ messages[1].role = "system"
        /\ Replayed = AsSent(ReplayedTurns(req.conversation_history))
        /\ messages[Len(messages)] = NewUserTurn
        /\ nProvider > 0 => sent = Len(messages)

C15_Witness ==
    /\ nProvider = 1
    /\ Len(req.conversation_history) = HistoryLimit + 2
    /\ Len(messages) = HistoryLimit + 2
    /\ messages[2].content = Turn(3).content
    /\ messages[HistoryLimit + 1].content = Turn(HistoryLimit + 2).content

\* C19: for every token given to set_memory_context and every pattern of
\* failures of the storage service, read_json and write_json return to
\* their caller without raising, and when the operation on the identity scope
\* fails they complete against the shared scope.
C19_ReadWriteNeverRaise ==
    op.name \in {"read_json", "write_json"} =>
        /\ ~op.raised
        /\ op.fallback =>
               current_guid = None /\ current_memory_path = shared_memory_path

\* The step is a call of set_memory_context with this token.
SetMemoryContextCalled(token) ==
    op'.name = "set_memory_context" /\ op'.token = token

\* C20: set_memory_context with no token, or with a text that is no UUID,
\* selects the shared scope and creates no directory and no file; with a UUID
\* whose document does not exist it creates the directory and an empty
\* document of the scope and selects it; after every call current_guid is set
\* exactly when the current path is that identity's path.
C20_ScopeSelection ==
    [][\A token \in StoreTokens : SetMemoryContextCalled(token) =>
          /\ (token = None \/ ~IsCanonicalUuid(token)) =>
                 /\ current_guid' = None
                 /\ current_memory_path' = shared_memory_path
                 /\ dirs' = dirs
                 /\ files' = files
          /\ (token # None /\ IsCanonicalUuid(token)
                 /\ ~files[guid_dir(token)].exists) =>
                 /\ guid_dir(token) \in dirs'
                 /\ files'[guid_dir(token)] = Doc({})
                 /\ current_guid' = token
                 /\ current_memory_path' = guid_dir(token)
          /\ IF current_guid' = None
             THEN current_memory_path' = shared_memory_path
             ELSE current_memory_path' = guid_dir(current_guid')]_vars

\* The document of the scope request p stores in.
StoredDocument(p) == files[stores[p].current_memory_path].records

\* Request p writes the document.
StoreWrites(p) == stores[p].pc = "write" /\ stores'[p].pc = "done"

\* C21: two requests storing a memory in the same scope at the same time are
\* not serialised. Every store writes the whole document as the document it
\* read plus its own record, whatever the document holds by then, so the
\* record of the last writer is always there and the record of the other
\* one only if the last writer read after it was written; the witness is the
\* run that loses an update.
C21_LastWriteWins ==
    [][\A p \in Storers : StoreWrites(p) =>
           /\ files'[stores[p].current_memory_path].records =
                  stores[p].memory_data \cup {memory_id(p)}
           /\ \A q \in Storers \ {p} :
                  (memory_id(q) \in files'[stores[p].current_memory_path].records)
                      <=> (memory_id(q) \in stores[p].memory_data)]_vars

\* Both requests were told that their memory is stored, in the same scope,
\* and the document holds the record of only one of them.
C21_Witness ==
    /\ \A p \in Storers : stores[p].returned = "Successfully stored"
    /\ stores["a"].current_memory_path = stores["b"].current_memory_path
    /\ memory_id("b") \in StoredDocument("b")
    /\ memory_id("a") \notin StoredDocument("a")

\* C22: the agent log returned with the response holds one entry for every
\* capability invocation of the turn that returned, in the order of the
\* invocations, whichever way the turn ends.
C22_LogHoldsEveryInvocation ==
    (pc \in {"returned", "done"} /\ http.status \notin {400, 500}) =>
        response.logs = Len(agent_logs)


\* The place of a source in the order of discovery.
SourceRank(source) ==
    CASE source = "bundled" -> 1
      [] source = "agents" -> 2
      [] source = "multi_agents" -> 3

\* The sources in which a definition declaring this name loaded.
SourcesDeclaring(name) ==
    {d.source : d \in {l \in discovery.loaded : l.name = name}}

\* C23: discovery goes through the bundled definitions, then the stored
\* collection 'agents', then the stored collection 'multi_agents'; when
\* several loaded definitions declare the same handler name, the registry
\* maps the name to the handler of the latest of their sources.
C23_LatestSourceWins ==
    discovery.pc # "none" =>
        \A name \in HandlerNames :
            IF SourcesDeclaring(name) = {}
            THEN discovery.declared_agents[name] = NoHandler
            ELSE /\ discovery.declared_agents[name].source \in SourcesDeclaring(name)
                 /\ \A source \in SourcesDeclaring(name) :
                        SourceRank(source)
                            <= SourceRank(discovery.declared_agents[name].source)

C23_Witness ==
    /\ discovery.pc = "returned"
    /\ SourcesDeclaring("X") = Sources
    /\ discovery.declared_agents["X"].source = "multi_agents"
    /\ SourcesDeclaring("Y") = {"bundled", "agents"}
    /\ discovery.declared_agents["Y"].source = "agents"

\* C24: a definition that fails to load, parse or instantiate, in any of the
\* three sources, leaves the registry as it is and the loop of its source
\* goes on with the next definition; a stored collection that cannot be
\* listed leaves the registry as it is and discovery goes on with the next
\* source; neither ends discovery with an error.
C24_FailuresNeverAbort ==
    [][/\ (discovery.pc \in Sources /\ discovery'.last \in FailedKinds) =>
            /\ discovery'.pc = discovery.pc
            /\ discovery'.n = discovery.n + 1
            /\ discovery'.declared_agents = discovery.declared_agents
       /\ (discovery.pc \in Sources /\ discovery'.last = "list_failed") =>
            /\ discovery'.pc = NextSource(discovery.pc)
            /\ discovery'.declared_agents = discovery.declared_agents]_vars

\* Nothing loaded and the last collection could not be listed: the registry
\* is returned empty.
C24_Witness ==
    /\ discovery.pc = "returned"
    /\ discovery.last = "list_failed"
    /\ discovery.loaded = {}
    /\ \A name \in HandlerNames : discovery.declared_agents[name] = NoHandler


\* A string, as opposed to None, a missing key and the values that are no
\* strings.
IsString(value) ==
    value = <<>> \/ value[1] \notin NonStringTypes \cup {None[1], Absent[1], Unset[1]}

\* ensure_string_content has returned.
Ensured == input.fn = "ensure_string_content" /\ output.returned

\* The function turn is built.
FunctionTurnBuilt == input.fn = "function_turn" /\ output.returned

\* C25 as stated: content that is no string becomes the empty string.
C25_NonStringContentBecomesEmpty ==
    (Ensured /\ ~IsString(input.arg.content)) => output.value.content = <<>>

\* C25: every message handed on has string content: content that is missing
\* or None becomes the empty string, a string stays as it is, and content of
\* any other type becomes its str() text, which is not empty; the function
\* turn carries the str() of what the handler returned, and the text "Agent
\* completed successfully" when it returned None.
C25_ContentIsString ==
    /\ Ensured =>
          /\ IsString(output.value.content)
          /\ input.arg.content \in {None, Absent} => output.value.content = <<>>
          /\ IsString(input.arg.content) => output.value.content = input.arg.content
          /\ (~IsString(input.arg.content) /\ input.arg.content \notin {None, Absent}) =>
                /\ output.value.content # <<>>
                /\ NonString(input.arg.content[1], output.value.content) = input.arg.content
    /\ FunctionTurnBuilt =>
          /\ output.value.role = "function"
          /\ IsString(output.value.content)
          /\ input.arg = None => output.value.content = AgentCompleted
          /\ IsString(input.arg) => output.value.content = input.arg

\* The number 5 as content comes out as the text "5".
C25_Witness ==
    /\ Ensured
    /\ input.arg.content = Int5
    /\ output.value.content = <<"5">>


\* _recall_context has returned.
Recalled == input.fn = "recall_context" /\ output.returned

\* A mapping that holds 'message'.
HoldsMessage(value) == value.isdict /\ value.message # Absent

\* The document without the entries that are no mappings holding 'message'.
RECURSIVE RecordsOnly(_)
RecordsOnly(d) ==
    IF d = <<>> THEN <<>>
    ELSE IF HoldsMessage(d[1]) THEN <<d[1]>> \o RecordsOnly(Tail(d))
    ELSE RecordsOnly(Tail(d))

\* What recall returns for the document d of the call.
RecallOf(d) ==
    recall_context(d, input.arg.current_guid, input.arg.max_messages,
                   input.arg.full_recall)

NoMemoriesForSession ==
    <<"N", "o", " ", "m", "e", "m", "o", "r", "i", "e", "s", " ", "f", "o",
      "u", "n", "d", " ", "f", "o", "r", " ", "t", "h", "i", "s", " ", "s",
      "e", "s", "s", "i", "o", "n", ".">>

\* C26 as stated: the entries that are no records change nothing in what
\* recall renders: it is what the document without them renders.
C26_IgnoredEntriesChangeNothing ==
    Recalled => output.value = RecallOf(RecordsOnly(input.arg.memory_data))

\* C26: recall takes for records only the entries whose value is a mapping
\* holding 'message'. With at least one record in the document, recall
\* renders what the document without the other entries renders; a document
\* that holds entries but no record renders "No memories found for this
\* session.", where the empty document renders the text of the empty store.
C26_OnlyRecordsRendered ==
    Recalled =>
        LET d == input.arg.memory_data
        IN  /\ RecordsOnly(d) # <<>> => output.value = RecallOf(RecordsOnly(d))
            /\ (RecordsOnly(d) = <<>> /\ d # <<>>) =>
                   /\ output.value = NoMemoriesForSession
                   /\ output.value # RecallOf(<<>>)
            /\ d = <<>> => output.value # NoMemoriesForSession

\* A record between a number and a mapping without 'message'.
C26_Witness ==
    /\ Recalled
    /\ Len(input.arg.memory_data) = 3
    /\ ~input.arg.memory_data[1].isdict
    /\ HoldsMessage(input.arg.memory_data[2])
    /\ input.arg.memory_data[3].isdict
    /\ ~HoldsMessage(input.arg.memory_data[3])
    /\ output.value = RecallOf(<<input.arg.memory_data[2]>>)

\* The lines of a text.
RECURSIVE SplitLines(_)
SplitLines(t) ==
    IF \A i \in 1..Len(t) : t[i] # "\n" THEN <<t>>
    ELSE LET n == CHOOSE i \in 1..Len(t) :
                      t[i] = "\n" /\ \A j \in 1..(i - 1) : t[j] # "\n"
         IN  <<SubSeq(t, 1, n - 1)>> \o SplitLines(SubSeq(t, n + 1, Len(t)))

\* (date, time) of x below (date, time) of y, a missing one taken as ''.
PairLess(x, y) ==
    LET dx == IF x.date = Absent THEN <<>> ELSE x.date
        dy == IF y.date = Absent THEN <<>> ELSE y.date
        tx == IF x.time = Absent THEN <<>> ELSE x.time
        ty == IF y.time = Absent THEN <<>> ELSE y.time
    IN  TextLess(dx, dy) \/ (dx = dy /\ TextLess(tx, ty))

\* C27: full recall of a document that holds records renders, under the
\* heading, one line per record: the lines are the lines of the records in
\* some arrangement that takes every record exactly once, and when the
\* (date, time) pairs of the records differ pairwise every line stands above
\* the lines of the records with a smaller (date, time).
C27_EveryRecordOnceNewestFirst ==
    (Recalled /\ input.arg.full_recall /\ RecordsOnly(input.arg.memory_data) # <<>>) =>
        LET r == RecordsOnly(input.arg.memory_data)
            n == Len(r)
            lines == Tail(SplitLines(output.value))
            distinct == \A i, j \in 1..n :
                            i # j => (PairLess(r[i], r[j]) \/ PairLess(r[j], r[i]))
        IN  \E perm \in [1..n -> 1..n] :
                /\ \A i, j \in 1..n : i # j => perm[i] # perm[j]
                /\ lines = [i \in 1..n |-> memory_line(r[perm[i]])]
                /\ distinct =>
                       \A i, j \in 1..n : i < j => PairLess(r[perm[j]], r[perm[i]])

\* Three records stored oldest first come out newest first.
C27_Witness ==
    /\ Recalled
    /\ input.arg.full_recall
    /\ Len(input.arg.memory_data) = 3
    /\ \A i \in 1..3 : HoldsMessage(input.arg.memory_data[i])
    /\ PairLess(input.arg.memory_data[1], input.arg.memory_data[2])
    /\ PairLess(input.arg.memory_data[2], input.arg.memory_data[3])
    /\ Tail(SplitLines(output.value)) =
           <<memory_line(input.arg.memory_data[3]),
             memory_line(input.arg.memory_data[2]),
             memory_line(input.arg.memory_data[1])>>


\* _initialize_context_memory has returned or raised.
SnapshotsBuilt == input.fn = "initialize_context_memory" /\ output.returned

\* The snapshot made of the outcome o of perform is within the cap, and of a
\* string longer than the cap it is the first MemoryCap characters.
WithinCap(snapshot, o) ==
    /\ IsString(snapshot)
    /\ Len(snapshot) <= MemoryCap
    /\ (~o.raises /\ IsString(o.result) /\ Len(o.result) > MemoryCap) =>
           /\ Len(snapshot) = MemoryCap
           /\ \A i \in 1..MemoryCap : snapshot[i] = o.result[i]
    /\ (~o.raises /\ IsString(o.result) /\ o.result # <<>>
            /\ Len(o.result) <= MemoryCap) => snapshot = o.result

\* C28: _initialize_context_memory never raises and leaves two snapshots that
\* are strings of at most 5000 characters; what perform returned is kept
\* whole up to 5000 characters and cut to its first 5000 characters beyond.
C28_SnapshotsWithinCap ==
    SnapshotsBuilt =>
        /\ ~output.value.raised
        /\ input.arg.has_agent =>
               /\ WithinCap(output.value.shared_memory, input.arg.shared)
               /\ WithinCap(output.value.user_memory, input.arg.user)
        /\ ~input.arg.has_agent =>
               /\ IsString(output.value.shared_memory)
               /\ IsString(output.value.user_memory)
               /\ Len(output.value.shared_memory) <= MemoryCap
               /\ Len(output.value.user_memory) <= MemoryCap

\* The shared rendering has 5002 characters and is cut, the rendering of the
\* identity raised.
C28_Witness ==
    /\ SnapshotsBuilt
    /\ input.arg.has_agent
    /\ ~input.arg.shared.raises
    /\ Len(input.arg.shared.result) = MemoryCap + 2
    /\ Len(output.value.shared_memory) = MemoryCap
    /\ output.value.shared_memory[1] = "a"
    /\ input.arg.user.raises


\* parse_response_with_voice has returned.
Parsed == input.fn = "parse_response_with_voice" /\ output.returned

\* The places of t where the delimiter starts.
DelimitersOf(t) ==
    {i \in 1..(Len(t) - Len(VoiceDelimiter) + 1) :
        SubSeq(t, i, i + Len(VoiceDelimiter) - 1) = VoiceDelimiter}

\* Where the first delimiter of t starts.
FirstDelimiter(t) == CHOOSE i \in DelimitersOf(t) : \A j \in DelimitersOf(t) : i <= j

\* The text of t behind its first delimiter.
AfterFirstDelimiter(t) == SubSeq(t, FirstDelimiter(t) + Len(VoiceDelimiter), Len(t))

\* C29 as stated: with a delimiter in the content, the rich channel is the
\* trimmed text before the first delimiter and the spoken channel the
\* trimmed text after it.
C29_SpokenIsAllAfterDelimiter ==
    (Parsed /\ DelimitersOf(input.arg) # {}) =>
        /\ output.value.formatted_response =
               Strip(SubSeq(input.arg, 1, FirstDelimiter(input.arg) - 1))
        /\ output.value.voice_response = Strip(AfterFirstDelimiter(input.arg))

\* C29: with a delimiter in the content, the rich channel is the trimmed text
\* before the first delimiter, and the spoken channel the trimmed text from
\* the first delimiter to the next delimiter behind it, to the end of the
\* content when there is none.
C29_SpokenIsUpToNextDelimiter ==
    (Parsed /\ DelimitersOf(input.arg) # {}) =>
        LET rest == AfterFirstDelimiter(input.arg)
        IN  /\ output.value.formatted_response =
                   Strip(SubSeq(input.arg, 1, FirstDelimiter(input.arg) - 1))
            /\ output.value.voice_response =
                   IF DelimitersOf(rest) = {} THEN Strip(rest)
                   ELSE Strip(SubSeq(rest, 1, FirstDelimiter(rest) - 1))

\* "**bold text**|||VOICE|||Short spoken line."
C29_Witness ==
    /\ Parsed
    /\ input.arg =
           <<"*", "*", "b", "o", "l", "d", " ", "t", "e", "x", "t", "*",
             "*">>
               \o VoiceDelimiter
               \o <<"S", "h", "o", "r", "t", " ", "s", "p", "o", "k", "e",
                    "n", " ", "l", "i", "n", "e", ".">>
    /\ output.value.formatted_response =
           <<"*", "*", "b", "o", "l", "d", " ", "t", "e", "x", "t", "*",
             "*">>
    /\ output.value.voice_response =
           <<"S", "h", "o", "r", "t", " ", "s", "p", "o", "k", "e", "n",
             " ", "l", "i", "n", "e", ".">>

\* The text of t up to its first period, all of t when it has none.
FirstSentence(t) ==
    LET periods == {i \in 1..Len(t) : t[i] = "."}
    IN  IF periods = {} THEN t
        ELSE SubSeq(t, 1, (CHOOSE i \in periods : \A j \in periods : i <= j) - 1)

\* C30 as stated: without a delimiter the rich channel is the full original
\* text.
C30_RichIsOriginalText ==
    (Parsed /\ DelimitersOf(input.arg) = {}) =>
        output.value.formatted_response = input.arg

\* C30: without a delimiter the rich channel is the trimmed content, and for a
\* content that is not empty the spoken channel is made of the trimmed
\* content up to its first period (all of it when it has none), trimmed and
\* followed by a period: the formatting marks are removed from it, every run
\* of whitespace becomes one space, and the result is trimmed, so that it
\* holds no #, no >, no backquote, no line break and no two spaces in a row.
\* Empty content gives two empty channels.
C30_SpokenIsFirstSentence ==
    (Parsed /\ DelimitersOf(input.arg) = {}) =>
        /\ output.value.formatted_response = Strip(input.arg)
        /\ input.arg = <<>> => output.value.voice_response = <<>>
        /\ input.arg # <<>> =>
               output.value.voice_response =
                   Strip(collapse_whitespace(remove_formatting(
                       Strip(FirstSentence(Strip(input.arg))) \o <<".">>)))
        /\ LET voice == output.value.voice_response
           IN  /\ \A i \in 1..Len(voice) :
                      voice[i] \notin {"#", ">", "<backquote>", "\n"}
               /\ \A i \in 1..(Len(voice) - 1) :
                      ~(voice[i] = " " /\ voice[i + 1] = " ")

\* "This is the answer. More detail follows."
C30_Witness ==
    /\ Parsed
    /\ input.arg =
           <<"T", "h", "i", "s", " ", "i", "s", " ", "t", "h", "e", " ",
             "a", "n", "s", "w", "e", "r", ".", " ", "M", "o", "r", "e",
             " ", "d", "e", "t", "a", "i", "l", " ", "f", "o", "l", "l",
             "o", "w", "s", ".">>
    /\ output.value.formatted_response = input.arg
    /\ output.value.voice_response =
           <<"T", "h", "i", "s", " ", "i", "s", " ", "t", "h", "e", " ",
             "a", "n", "s", "w", "e", "r", ".">>


\* ContextMemoryAgent.perform has returned for a document that holds records.
PerformedOnRecords ==
    /\ input.fn = "perform"
    /\ output.returned
    /\ RecordsOnly(input.arg.memory_data) # <<>>

\* The number max_messages of the call stands for.
MaxMessagesOf(kw) ==
    IF kw.has_max_messages THEN kw.max_messages ELSE DefaultMaxMessages

\* The lines under the heading are lines of records of r, newest first: the
\* i-th line is the line of a record with fewer than i records newer than it
\* and at least i records as new as it or newer.
NewestFirst(lines, r) ==
    \A i \in 1..Len(lines) :
        \E j \in 1..Len(r) :
            /\ lines[i] = memory_line(r[j])
            /\ Cardinality({k \in 1..Len(r) : PairLess(r[j], r[k])}) < i
            /\ Cardinality({k \in 1..Len(r) : ~PairLess(r[k], r[j])}) >= i

IsErrorEnvelope(r) == r.kind = "dict" /\ r.status = "\"error\""

\* C32: a handler result that is the error envelope {"status": "error",
\* "message": ...} sets needs_follow_up and sends the loop back to Complete:
\* the turn is never at the final provider call with such a result.
C32_ErrorEnvelopeFollowedUp ==
    (pc = "finalize" /\ IsErrorEnvelope(result)) => needs_follow_up


\* C34: set_memory_context leaves every identity document that holds records
\* as it is, also when get_file_properties fails on a document that is
\* there.
C34_ExistingDocumentKept ==
    [][SetMemoryContext =>
           \A path \in StorePaths :
               (files[path].exists /\ files[path].records # {}) =>
                   files'[path] = files[path]]_vars


\* C33: a store_memory whose write starts with an identity scope selected
\* leaves the shared memory document as it was.
C33_SharedDocumentUntouched ==
    [][\A p \in Storers :
           (/\ StoreWrites(p)
            /\ InIdentityScope(stores[p].current_guid,
                               stores[p].current_memory_path)) =>
               files'[shared_memory_path] = files[shared_memory_path]]_vars

\* C35: when store_memory gives back "Successfully stored", the document of
\* the scope that the message names holds the new record.
C35_StoredWhenSuccessful ==
    [][\A p \in Storers :
           (StoreWrites(p) /\ stores'[p].returned = "Successfully stored") =>
               LET doc == files'[stores'[p].current_memory_path]
               IN  doc.exists /\ memory_id(p) \in doc.records]_vars


\* C36: a function_call in the message of the finalisation call is acted on:
\* the turn goes on to dispatch it, or ends with the not-found or the
\* parameter error.
C36_FinalFunctionCallActedOn ==
    [][(final_msg'.returned /\ ~final_msg.returned
            /\ final_msg'.function_call # "") =>
           \/ pc' = "dispatch"
           \/ response'.kind \in {"agent_not_exist", "error_parsing_parameters"}]_vars


\* C37: a user turn of the supplied history that holds nothing but an
\* identity token and is not its first turn does not become the session's
\* identity and, when it is among the retained turns, is replayed, also when
\* the cut to HistoryLimit turns makes it the first retained turn.
C37_OnlyFirstSuppliedTurn ==
    LET h == req.conversation_history
    IN  \A k \in 2..Len(h) :
            (PastResolution /\ IsTokenTurn(h[k]) /\ ~IsTokenTurn(h[1])) =>
                /\ user_guid # h[k].content
                /\ (messages # <<>> /\ k > Len(h) - HistoryLimit) =>
                       \E i \in 1..Len(Replayed) :
                           Replayed[i].content = h[k].content


\* get_response is inside or past its completion loop.
LoopStarted == pc \in {"complete", "dispatch", "finalize", "returned"}

\* C38: from the start of the completion loop on, no step changes the
\* session's identity token or either memory snapshot; every invocation of a
\* memory capability receives that token as user_guid, and the response
\* carries it.
C38_IdentityFixedInLoop ==
    [][LoopStarted =>
           /\ user_guid' = user_guid
           /\ shared_memory' = shared_memory
           /\ user_memory' = user_memory
           /\ (nPerform' = nPerform + 1 /\ call.name \in MemoryAgents) =>
                  kwargs'.user_guid = user_guid'
           /\ pc' = "done" => http'.user_guid = user_guid]_vars

C38_Witness ==
    /\ pc = "done"
    /\ nPerform = 2
    /\ call.name \in MemoryAgents
    /\ user_guid = UuidB
    /\ req.user_guid # UuidB
    /\ kwargs.user_guid = UuidB
    /\ http.user_guid = UuidB


\* A step in which a provider call did not return: the loop is back at its
\* head, or the turn has ended with the generic error.
ProviderFailed ==
    /\ nProvider' = nProvider + 1
    /\ pc' = "complete" \/ response'.kind = "error_occurred"

\* C39: every failing provider call, of Complete or of the finalisation,
\* adds one to retry_count; no other step of the loop changes it, so
\* retry_count is the number of failed provider calls of the turn; it never
\* exceeds max_retries, the call that makes it max_retries ends the turn with
\* the generic error, and no provider call follows the end of the turn.
C39_RetryCountCumulative ==
    /\ [][ProviderFailed =>
            /\ retry_count' = retry_count + 1
            /\ retry_count' = max_retries =>
                   (pc' = "returned" /\ response'.kind = "error_occurred")]_vars
    /\ [][(LoopStarted /\ ~ProviderFailed) => retry_count' = retry_count]_vars
    /\ [](retry_count <= max_retries)
    /\ [][retry_count = max_retries => nProvider' = nProvider]_vars

C39_Witness ==
    /\ pc = "returned"
    /\ response.kind = "error_occurred"
    /\ retry_count = max_retries
    /\ nPerform = 2
    /\ nProvider = max_retries + 2


\* C40: every call of write_json ends within the runs of
\* _write_shared_memory provided for: the shared write does not call itself
\* again after the last of them.
C40_WriteEndsWithinAttempts ==
    (input.fn = "write_json" /\ output.returned) => ~output.value.cut

====
